---- MODULE Spec2Model ----
(***************************************************************************)
(* A model of the retrieval-augmented-generation pipeline: the Retriever   *)
(* (VectorEngine.search), the ResponseOrchestrator (ChatEngine.            *)
(* get_response), the cost store (CostTracker.track_request) and the       *)
(* Chunker (DocumentProcessor._create_chunks and its helpers).             *)
(*                                                                         *)
(* Units.  Cosine distances and similarity scores are counted in halves    *)
(* (distance 3 is 1.5, score 2 is 1.0).  A confidence is counted in        *)
(* twelfths (12 is 1.0, 6 is 0.5) so that the mean of one, two or three    *)
(* scores is an integer.  Texts are run-length encoded: a text is a        *)
(* sequence of runs [c |-> class, n |-> count] over the character classes  *)
(* "a" (a letter), "." (a sentence terminator . ! ?) and " " (whitespace). *)
(***************************************************************************)
EXTENDS Integers, Sequences, FiniteSets, TLC

VARIABLES
    \* the Vector Store, as the query at hand sees it: the stored chunks in
    \* ascending order of their distance to the query embedding
    collection,
    \* VectorEngine.search called directly (VectorService.search)
    searchStatus, searchLimit, searchHits, storeQueries,
    \* one ChatEngine.get_response call per request
    pc, request_id, user_query, fetched, unique_docs, generated, response,
    \* the cost store (table costs, PRIMARY KEY request_id), and for each
    \* request the usage the Generator reported and what became of its
    \* track_request call
    costs, tracked,
    \* CostTracker.track_request called directly: the calls made so far, each
    \* with the summary the store gives after it
    trackLog,
    \* one DocumentProcessor chunking call: the input text and configuration,
    \* the position in the call, the branch taken, the text being cut, the
    \* fallback loop's start position and the chunks emitted so far (each an
    \* interval [s, e) of source)
    text, chunk_config, cpc, route, source, start, chunks,
    \* the Vector Store as ingestion sees it: the records of the Chroma
    \* collection (id, metadata category, document text), what the installed
    \* chromadb does with an add of an id it already holds, and the last
    \* ingestion operation that ran
    stored, chroma, lastOp,
    \* one streaming request: the position of the handler and the events it
    \* has emitted
    spc, events,
    \* the timestamp column of the cost table, by request id, as the number
    \* of days the row's DATE(timestamp) lies before today; and one aggregate
    \* query on the cost store: the position in the call, the call itself,
    \* the rows and the summary it has read so far, and what it returned
    timestamps, apc, asked, daily_data, got_summary, payload,
    \* one ingestion run over the files of the knowledge folder: the files
    \* with what their conversion gives, the position in the run and the
    \* line printed for each file handled so far
    files, fpc, report,
    \* one CostCalculator.calculate_cost call: its arguments and its result
    quote, quoted,
    \* one _clean_text_content call: the content parsed and the text returned
    raw_content, cleaned_content,
    \* one fixed-size chunking call: its arguments and the chunks returned
    fixed_call, fixed_chunks

searchVars == <<searchStatus, searchLimit, searchHits, storeQueries>>
chatVars == <<pc, request_id, user_query, fetched, unique_docs, generated, response>>
costVars == <<costs, tracked, trackLog>>
chunkVars == <<text, chunk_config, cpc, route, source, start, chunks>>
storeVars == <<stored, chroma, lastOp>>
streamVars == <<spc, events>>
queryVars == <<timestamps, apc, asked, daily_data, got_summary, payload>>
ingestVars == <<files, fpc, report>>
priceVars == <<quote, quoted>>
cleanVars == <<raw_content, cleaned_content>>
fixedVars == <<fixed_call, fixed_chunks>>
\* the state of the requests, the chunker and the stores
onlineVars == <<collection, searchVars, chatVars, costVars, chunkVars, storeVars, streamVars>>
\* the state of what runs beside them
offlineVars == <<queryVars, ingestVars, priceVars, cleanVars, fixedVars>>
vars == <<onlineVars, offlineVars>>

Min(a, b) == IF a <= b THEN a ELSE b
Max(a, b) == IF a >= b THEN a ELSE b

RECURSIVE SumSeq(_)
SumSeq(s) == IF s = <<>> THEN 0 ELSE Head(s) + SumSeq(Tail(s))

(***************************************************************************)
(* Bounds of the model.                                                    *)
(***************************************************************************)
\* chunks in the Vector Store when search is exercised on its own
MaxChunks == 6
\* chunks in the Vector Store while requests are answered
MaxChatChunks == 2
\* chunks in the Vector Store when the confidence of an answer is examined
MaxConfChunks == 4
\* get_response calls in flight
NumRequests == 1

\* the fan-out get_response passes to search
RetrievalLimit == 5
\* the cap on the over-fetch
MaxSearchLimit == 20

\* 0.5 in twelfths: the confidence of every fallback answer
FallbackConfidence == 6
\* len("FAILED"), the answer the fallback branch hands to the cost record
FailedMarkerLen == 6
\* CostCalculator.PRICING["custom"]["default"], which prices the model
\* get_response names: dollars per 1000 tokens in thousandths, that is
\* millionths of a dollar per token
DefaultInputPrice == 1
DefaultOutputPrice == 2

\* words of the system prompt, of the prompt template around context and
\* query, and of the context when nothing was retrieved
SystemPromptWords == 120
TemplateWords == 125
NoDocsContextWords == 4
\* words a retrieved chunk adds to the context (title, category, file, text)
ChunkWords == 10

\* get_response calls running concurrently
NumConcurrent == 2

\* direct track_request calls, and the request ids they carry
MaxTrackCalls == 3
MaxCostIds == 2

\* chunks an ingested document is cut into
MaxDocChunks == 2

\* segments a chunked text is built from
MaxSegments == 2

\* ChunkConfig's defaults
DefaultChunkSize == 1000
DefaultChunkOverlap == 200
DefaultMinChunkSize == 100
DefaultMaxChunkSize == 2000
\* the smallest chunk_size _validate_chunk_config accepts
MinAcceptedChunkSize == 100

DefaultChunkConfig ==
    [chunk_size |-> DefaultChunkSize, chunk_overlap |-> DefaultChunkOverlap,
     min_chunk_size |-> DefaultMinChunkSize, max_chunk_size |-> DefaultMaxChunkSize]

\* a validation that looks at chunk_size alone
ValidateChunkSizeOnly(config) ==
    ~(config.chunk_size < MinAcceptedChunkSize)

\* DocumentProcessor._validate_chunk_config: TRUE when nothing is raised
validate_chunk_config(config) ==
    /\ ~(config.chunk_size < MinAcceptedChunkSize)
    /\ ~(config.chunk_overlap >= config.chunk_size)
    /\ ~(config.min_chunk_size > config.chunk_size)

\* the configurations a DocumentProcessor is created with: the default; at
\* the smallest accepted chunk size a modest overlap and the largest overlap
\* accepted; and three that break one rule each (chunk_size one too small,
\* chunk_overlap equal to chunk_size, min_chunk_size one above chunk_size)
ChunkConfigs ==
    { DefaultChunkConfig,
      [chunk_size |-> MinAcceptedChunkSize, chunk_overlap |-> 20,
       min_chunk_size |-> 50, max_chunk_size |-> 120],
      [chunk_size |-> MinAcceptedChunkSize,
       chunk_overlap |-> MinAcceptedChunkSize - 1,
       min_chunk_size |-> 10, max_chunk_size |-> 120],
      [chunk_size |-> MinAcceptedChunkSize - 1, chunk_overlap |-> 20,
       min_chunk_size |-> 50, max_chunk_size |-> 120],
      [chunk_size |-> MinAcceptedChunkSize, chunk_overlap |-> MinAcceptedChunkSize,
       min_chunk_size |-> 50, max_chunk_size |-> 120],
      [chunk_size |-> MinAcceptedChunkSize, chunk_overlap |-> 20,
       min_chunk_size |-> MinAcceptedChunkSize + 1, max_chunk_size |-> 120] }

\* letters in a word, and what follows the word
BodyLens == {0, 1, 60, 130}
Tails == {".", " ", ". "}

\* words of the user's query
QueryWords == {0, 3}
\* cosine distances the store reports, in halves: 0, 0.5 and 1.5
Distances == {0, 1, 3}
\* the limits a direct caller of search passes
Limits == {1, 2, RetrievalLimit}
Requests == 1 .. NumRequests
ConcurrentRequests == 1 .. NumConcurrent

(***************************************************************************)
(* Vector Store contents.  Titles only matter up to equality, so chunk i   *)
(* carries a title number at most one above those of the chunks before    *)
(* it; distances are ascending because the store answers nearest first.    *)
(***************************************************************************)
TitlesOf(c) == { c[i].title : i \in 1 .. Len(c) }

RECURSIVE CollectionsOfLen(_)
CollectionsOfLen(k) ==
    IF k = 0 THEN { <<>> }
    ELSE UNION { { Append(c, [title |-> t, dist |-> d]) :
                     t \in 1 .. (Cardinality(TitlesOf(c)) + 1),
                     d \in { x \in Distances : c = <<>> \/ x >= c[Len(c)].dist } }
                 : c \in CollectionsOfLen(k - 1) }

Collections(n) == UNION { CollectionsOfLen(k) : k \in 0 .. n }

(***************************************************************************)
(* VectorEngine.search                                                     *)
(***************************************************************************)
\* collection.query(n_results = n): the n nearest chunks, nearest first
QueryStore(coll, n) == SubSeq(coll, 1, Min(n, Len(coll)))

\* score = 1 - distance
Score(dist) == 2 - dist

FormatHit(chunk) == [title |-> chunk.title, score |-> Score(chunk.dist)]

\* formatted_results: one hit per neighbour, none when the store returned no ids
FormatResults(neighbours) ==
    IF Len(neighbours) > 0
    THEN [i \in 1 .. Len(neighbours) |-> FormatHit(neighbours[i])]
    ELSE <<>>

\* list.sort(key = score, reverse = True) is stable: h goes after every hit
\* already placed whose score is at least its own
RECURSIVE InsertByScore(_, _)
InsertByScore(h, sorted) ==
    IF sorted = <<>> THEN <<h>>
    ELSE IF Head(sorted).score >= h.score
         THEN <<Head(sorted)>> \o InsertByScore(h, Tail(sorted))
         ELSE <<h>> \o sorted

RECURSIVE SortByScore(_)
SortByScore(hits) ==
    IF hits = <<>> THEN <<>>
    ELSE InsertByScore(hits[Len(hits)], SortByScore(SubSeq(hits, 1, Len(hits) - 1)))

Truncate(hits, limit) == SubSeq(hits, 1, Min(limit, Len(hits)))

SearchFetch(limit) == Min(limit * 2, MaxSearchLimit)

\* what search does on the store's answer; an index into an empty answer raises
SearchUnguarded(coll, limit) ==
    LET neighbours == QueryStore(coll, SearchFetch(limit))
    IN  IF Len(neighbours) = 0
        THEN [status |-> "raised", hits |-> <<>>, queries |-> 1]
        ELSE [status |-> "returned",
              hits |-> Truncate(SortByScore(FormatResults(neighbours)), limit),
              queries |-> 1]

search(coll, limit) ==
    LET neighbours == QueryStore(coll, SearchFetch(limit))
    IN  [status |-> "returned",
         hits |-> Truncate(SortByScore(FormatResults(neighbours)), limit),
         queries |-> 1]

(***************************************************************************)
(* TokenCounter: the configured model has no registered encoder, so both   *)
(* counters take the word-based approximation.  A text is its word count.  *)
(***************************************************************************)
\* int(words * 1.33)
approximate_token_count(words) == (words * 133) \div 100

\* per message: the content's tokens plus 8 for role and format
approximate_message_tokens(messages) ==
    SumSeq([i \in 1 .. Len(messages) |-> approximate_token_count(messages[i]) + 8])

count_tokens(words) == approximate_token_count(words)

count_message_tokens(messages) == approximate_message_tokens(messages)

\* words of the context block: two frame lines of 11 words, and per document
\* 14 words of labels around the chunk's own title, category, file and text
create_context(documents) ==
    IF documents = <<>> THEN NoDocsContextWords
    ELSE 11 + Len(documents) * (14 + ChunkWords)

create_augmented_prompt(query, context) == TemplateWords + context + query

(***************************************************************************)
(* ChatEngine.get_response                                                 *)
(***************************************************************************)
\* lines 67-74: keep the first document of every title
RECURSIVE DedupeFrom(_, _)
DedupeFrom(docs, seen) ==
    IF docs = <<>> THEN <<>>
    ELSE IF Head(docs).title \in seen
         THEN DedupeFrom(Tail(docs), seen)
         ELSE <<Head(docs)>> \o DedupeFrom(Tail(docs), seen \cup {Head(docs).title})

DedupeByTitle(docs) == DedupeFrom(docs, {})

\* the mean taken over every document instead of documents[:3]
ConfidenceOverAllDocuments(documents) ==
    IF documents = <<>> THEN 0
    ELSE SumSeq([i \in 1 .. Len(documents) |-> documents[i].score])
             * (6 \div Len(documents))

\* mean of the scores of documents[:3], in twelfths
calculate_confidence(documents) ==
    IF documents = <<>> THEN 0
    ELSE LET top == SubSeq(documents, 1, Min(3, Len(documents)))
         IN  SumSeq([i \in 1 .. Len(top) |-> top[i].score]) * (6 \div Len(top))

\* the text create_fallback_response builds: with no document a plain
\* "couldn't find" sentence, otherwise the top document and the fallback note
create_fallback_response(documents) ==
    IF documents = <<>> THEN "not_found" ELSE "fallback_note"

(***************************************************************************)
(* What the Generator can do with a request.  A timeout or provider error  *)
(* raises inside chat.completions.create; a response with no choices       *)
(* raises at choices[0]; a response whose content is None raises at        *)
(* answer[:200].  An "ok" response carries a text (possibly of length 0)   *)
(* and a usage object (possibly None).                                     *)
(***************************************************************************)
NoUsage == [present |-> FALSE, completion_tokens |-> 0, output_tokens |-> 0,
            total_tokens |-> 0, reports_total |-> FALSE]

Usages ==
    { NoUsage,
      [present |-> TRUE, completion_tokens |-> 3, output_tokens |-> 0, total_tokens |-> 0,
       reports_total |-> TRUE],
      [present |-> TRUE, completion_tokens |-> 3, output_tokens |-> 0, total_tokens |-> 400,
       reports_total |-> TRUE],
      [present |-> TRUE, completion_tokens |-> 0, output_tokens |-> 2, total_tokens |-> 0,
       reports_total |-> FALSE] }

GenFailures == {"timeout", "provider_error", "no_choices", "null_content"}

GenOutcomes ==
    [kind : GenFailures, len : {0}, usage : {NoUsage}]
    \cup [kind : {"ok"}, len : {4}, usage : Usages]
    \cup [kind : {"ok"}, len : {0}, usage : {NoUsage}]

\* a or b on integers
PyOr(a, b) == IF a # 0 THEN a ELSE b

\* CostCalculator.calculate_cost under the default pricing, in millionths of
\* a dollar (round(., 6) keeps every millionth)
calculate_cost(input_tokens, output_tokens) ==
    [input_cost |-> input_tokens * DefaultInputPrice,
     output_cost |-> output_tokens * DefaultOutputPrice,
     total_cost |-> input_tokens * DefaultInputPrice + output_tokens * DefaultOutputPrice]

\* ChatEngine._get_estimated_cost: a failing estimate is swallowed and priced 0
get_estimated_cost(input_tokens, output_tokens, pricingUp) ==
    IF pricingUp THEN calculate_cost(input_tokens, output_tokens)
    ELSE [input_cost |-> 0, output_cost |-> 0, total_cost |-> 0]

\* the CostBreakdown dataclass, without the fields no aggregate reads
CostBreakdown(id, input_tokens, output_tokens, total_tokens, response_length, cost) ==
    [request_id |-> id, input_tokens |-> input_tokens,
     output_tokens |-> output_tokens, total_tokens |-> total_tokens,
     input_cost |-> cost.input_cost, output_cost |-> cost.output_cost,
     total_cost |-> cost.total_cost, response_length |-> response_length]

\* the arguments of one _track_request_cost call
TrackCall(id, input_tokens, output_tokens, total_tokens, response_length) ==
    [request_id |-> id, input_tokens |-> input_tokens,
     output_tokens |-> output_tokens, total_tokens |-> total_tokens,
     response_length |-> response_length]

\* lines 144-171: the except branch
FallbackPath(id, query, docs, out) ==
    LET estimated_tokens == count_tokens(query)
    IN  [response |-> [kind |-> "FALLBACK",
                       answer |-> create_fallback_response(docs),
                       answer_len |-> 0,
                       sources |-> docs,
                       confidence |-> FallbackConfidence,
                       request_id |-> id,
                       input_tokens |-> estimated_tokens,
                       output_tokens |-> 0,
                       total_tokens |-> estimated_tokens],
         track |-> <<TrackCall(id, estimated_tokens, 0, estimated_tokens,
                               FailedMarkerLen)>>]

\* a try branch that always adds up its own counts
SuccessPathSummingTokens(id, query, docs, out) ==
    LET context == create_context(docs)
        augmented_prompt == create_augmented_prompt(query, context)
        input_tokens == count_message_tokens(<<SystemPromptWords, augmented_prompt>>)
        output_tokens ==
            IF out.usage.present
            THEN PyOr(out.usage.completion_tokens, out.usage.output_tokens)
            ELSE 0
        total_tokens == input_tokens + output_tokens
    IN  [response |-> [kind |-> "SUCCESS",
                       answer |-> "generated",
                       answer_len |-> out.len,
                       sources |-> docs,
                       confidence |-> calculate_confidence(docs),
                       request_id |-> id,
                       input_tokens |-> input_tokens,
                       output_tokens |-> output_tokens,
                       total_tokens |-> total_tokens],
         track |-> <<TrackCall(id, input_tokens, output_tokens, total_tokens,
                               out.len)>>]

\* lines 81-142: the try branch, when nothing in it raises
SuccessPath(id, query, docs, out) ==
    LET context == create_context(docs)
        augmented_prompt == create_augmented_prompt(query, context)
        input_tokens == count_message_tokens(<<SystemPromptWords, augmented_prompt>>)
        output_tokens ==
            IF out.usage.present
            THEN PyOr(out.usage.completion_tokens, out.usage.output_tokens)
            ELSE 0
        total_tokens ==
            IF out.usage.present
            THEN PyOr(out.usage.total_tokens, input_tokens + output_tokens)
            ELSE input_tokens
    IN  [response |-> [kind |-> "SUCCESS",
                       answer |-> "generated",
                       answer_len |-> out.len,
                       sources |-> docs,
                       confidence |-> calculate_confidence(docs),
                       request_id |-> id,
                       input_tokens |-> input_tokens,
                       output_tokens |-> output_tokens,
                       total_tokens |-> total_tokens],
         track |-> <<TrackCall(id, input_tokens, output_tokens, total_tokens,
                               out.len)>>]

\* the error leaves get_response: nothing is returned, nothing is tracked
Propagate(id, query, docs, out) ==
    [response |-> [kind |-> "ERROR", answer |-> "none", answer_len |-> 0,
                   sources |-> <<>>, confidence |-> 0, request_id |-> id,
                   input_tokens |-> 0, output_tokens |-> 0, total_tokens |-> 0],
     track |-> <<>>]

\* an except clause that names the provider's exception types only
GenerateCatchingApiErrors(id, query, docs, out) ==
    IF out.kind = "ok" THEN SuccessPath(id, query, docs, out)
    ELSE IF out.kind \in {"timeout", "provider_error"}
         THEN FallbackPath(id, query, docs, out)
         ELSE Propagate(id, query, docs, out)

\* a fallback branch that returns without tracking the failed request
GenerateFallbackUntracked(id, query, docs, out) ==
    IF out.kind = "ok" THEN SuccessPath(id, query, docs, out)
    ELSE [FallbackPath(id, query, docs, out) EXCEPT !.track = <<>>]

\* lines 80-171: try the generation, and on any exception fall back
GenerateStep(id, query, docs, out) ==
    IF out.kind = "ok" THEN SuccessPath(id, query, docs, out)
    ELSE FallbackPath(id, query, docs, out)

(***************************************************************************)
(* CostTracker.track_request: INSERT OR REPLACE keyed by request_id; a     *)
(* failing store is logged and swallowed.                                  *)
(***************************************************************************)
\* a plain INSERT into a table that has no key
TrackRequestInsertOnly(store, cost_breakdown, up) ==
    IF up THEN store \cup {cost_breakdown} ELSE store

track_request(store, cost_breakdown, up) ==
    IF up
    THEN { c \in store : c.request_id # cost_breakdown.request_id } \cup {cost_breakdown}
    ELSE store

\* the records a direct caller of track_request passes: a request of 1000
\* input tokens that got no completion or one of 500 tokens
CostBreakdowns ==
    { CostBreakdown(id, 1000, output_tokens, 1000 + output_tokens, 4,
                    calculate_cost(1000, output_tokens)) :
        id \in 1 .. MaxCostIds, output_tokens \in {0, 500} }

\* SUM(column) over the rows of the table
RECURSIVE SumColumn(_, _)
SumColumn(rows, column) ==
    IF rows = {} THEN 0
    ELSE LET row == CHOOSE c \in rows : TRUE
         IN  row[column] + SumColumn(rows \ {row}, column)

\* CostTracker.get_cost_summary's total_summary, every record being inside
\* the window of days
cost_summary(store) ==
    [total_requests |-> Cardinality(store),
     total_tokens |-> SumColumn(store, "total_tokens"),
     total_cost |-> SumColumn(store, "total_cost")]

(***************************************************************************)
(* CostCalculator.calculate_cost for any model and provider.  Prices are   *)
(* in millionths of a dollar per 1000 tokens and a cost in millionths of a *)
(* dollar, the unit round(., 6) rounds to.                                 *)
(***************************************************************************)
\* the largest token count a cost is calculated for
MaxQuoteTokens == 6
TokenCounts == 0 .. MaxQuoteTokens

\* CostCalculator.PRICING, in the order of the dict
ProviderOrder == <<"openai", "deepseek", "anthropic", "google", "custom">>

PRICING ==
    [provider \in { ProviderOrder[i] : i \in DOMAIN ProviderOrder } |->
        IF provider = "openai"
        THEN ("gpt-4" :> [input |-> 30000, output |-> 60000])
                 @@ ("gpt-4-turbo" :> [input |-> 10000, output |-> 30000])
                 @@ ("gpt-3.5-turbo" :> [input |-> 1500, output |-> 2000])
        ELSE IF provider = "deepseek"
        THEN ("deepseek/deepseek-chat" :> [input |-> 140, output |-> 280])
                 @@ ("deepseek/deepseek-coder" :> [input |-> 140, output |-> 280])
        ELSE IF provider = "anthropic"
        THEN ("claude-3-opus" :> [input |-> 15000, output |-> 75000])
                 @@ ("claude-3-sonnet" :> [input |-> 3000, output |-> 15000])
                 @@ ("claude-3-haiku" :> [input |-> 250, output |-> 1250])
        ELSE IF provider = "google"
        THEN ("gemini-pro" :> [input |-> 500, output |-> 1500])
                 @@ ("gemini-pro-vision" :> [input |-> 500, output |-> 1500])
        ELSE ("default" :> [input |-> 1000, output |-> 2000])]

\* the models and providers a cost is asked for: those of the table, the
\* model the ChatEngine is configured with, and names the table lacks
QuoteModels ==
    UNION { DOMAIN PRICING[provider] : provider \in DOMAIN PRICING }
        \cup {"gpt-3.5-turbo-0125", "unknown-model"}
QuoteProviders == DOMAIN PRICING \cup {"unknown-provider"}

\* _get_pricing, lines 100-103: the first provider, from the i-th on, that
\* lists the model
RECURSIVE PricingInAnyProvider(_, _)
PricingInAnyProvider(model, i) ==
    IF i > Len(ProviderOrder) THEN PRICING["custom"]["default"]
    ELSE IF model \in DOMAIN PRICING[ProviderOrder[i]]
         THEN PRICING[ProviderOrder[i]][model]
         ELSE PricingInAnyProvider(model, i + 1)

\* CostCalculator._get_pricing
get_pricing(model, provider) ==
    IF provider \in DOMAIN PRICING /\ model \in DOMAIN PRICING[provider]
    THEN PRICING[provider][model]
    ELSE PricingInAnyProvider(model, 1)

\* round(x, 6) of x = thousandths / 1000 millionths of a dollar: to the
\* nearest millionth, and a half to the neighbour on whose side the double
\* that holds x lies, which the decimal value does not tell
Round6(thousandths, half_up) ==
    LET q == thousandths \div 1000
        r == thousandths % 1000
    IN  IF r > 500 \/ (r = 500 /\ half_up) THEN q + 1 ELSE q

\* on which of the three roundings of one call a half goes up
HalvesUp == SUBSET {"input", "output", "total"}

Cost(status, input_cost, output_cost, total_cost) ==
    [status |-> status, input_cost |-> input_cost, output_cost |-> output_cost,
     total_cost |-> total_cost]

\* a calculation that charges every request at least one millionth
CalculateCostWithMinimumCharge(model, input_tokens, output_tokens, provider, halves_up) ==
    LET pricing == get_pricing(model, provider)
        input_cost == input_tokens * pricing.input
        output_cost == output_tokens * pricing.output
        total_cost == input_cost + output_cost
    IN  Cost("returned",
             Round6(input_cost, "input" \in halves_up),
             Round6(output_cost, "output" \in halves_up),
             Max(1, Round6(total_cost, "total" \in halves_up)))

\* CostCalculator.calculate_cost(model, input_tokens, output_tokens,
\* provider), lines 74-90
calculate_cost_for(model, input_tokens, output_tokens, provider, halves_up) ==
    LET pricing == get_pricing(model, provider)
        input_cost == input_tokens * pricing.input
        output_cost == output_tokens * pricing.output
        total_cost == input_cost + output_cost
    IN  Cost("returned",
             Round6(input_cost, "input" \in halves_up),
             Round6(output_cost, "output" \in halves_up),
             Round6(total_cost, "total" \in halves_up))

(***************************************************************************)
(* The aggregate queries of the CostTracker and the efficiency endpoint    *)
(* built on them.  A row of the cost table is a CostBreakdown of `costs`   *)
(* with its timestamp in `timestamps`; a date is the number of days it     *)
(* lies before today, so ORDER BY date DESC is ascending in that number.   *)
(* What a query returns is a record: whether it raised instead, the form   *)
(* of the value (a dict, a list, a string of JSON, of CSV lines or of      *)
(* str()), the keys of the dict, its list of rows, its totals and its      *)
(* suggestions.                                                            *)
(***************************************************************************)
\* the oldest timestamp a row carries, in days before today
MaxAge == 2
Ages == 0 .. MaxAge
\* the windows of days a query is asked for (days >= 1)
Windows == 1 .. MaxAge - 1
\* the formats export_cost_data is asked for
Formats == {"json", "csv", "text"}
\* alert thresholds, in millionths of a dollar
Thresholds == {0, 1500}

ZeroTotals == [total_requests |-> 0, total_tokens |-> 0, total_cost |-> 0]

Payload(raised, form, keys, rows, totals, suggestions) ==
    [raised |-> raised, form |-> form, keys |-> keys, rows |-> rows,
     totals |-> totals, suggestions |-> suggestions]

NoPayload == Payload(FALSE, "none", {}, <<>>, ZeroTotals, <<>>)
NoQuote == [model |-> "none", provider |-> "none", input_tokens |-> 0, output_tokens |-> 0]
NoCost == [status |-> "none", input_cost |-> 0, output_cost |-> 0, total_cost |-> 0]
NoFixedCall == [fn |-> "none", text |-> <<>>, size |-> 0, overlap |-> 0]
NoQuery == [op |-> "none", days |-> 0, format |-> "none"]

\* WHERE DATE(timestamp) >= start_date, start_date being today - days
InWindow(store, stamps, days) == { c \in store : stamps[c.request_id] <= days }

\* GROUP BY DATE(timestamp): COUNT(*), SUM(total_tokens), SUM(total_cost) of
\* one date
DailyRow(rows, stamps, date) ==
    LET of_date == { c \in rows : stamps[c.request_id] = date }
    IN  [date |-> date,
         requests |-> Cardinality(of_date),
         tokens |-> SumColumn(of_date, "total_tokens"),
         cost |-> SumColumn(of_date, "total_cost")]

\* the groups from `date` back to the start of the window, newest first; a
\* date without rows makes no group
RECURSIVE DailyFrom(_, _, _, _)
DailyFrom(rows, stamps, date, days) ==
    IF date > days THEN <<>>
    ELSE LET row == DailyRow(rows, stamps, date)
         IN  (IF row.requests = 0 THEN <<>> ELSE <<row>>)
                 \o DailyFrom(rows, stamps, date + 1, days)

\* get_cost_summary's first SELECT (lines 222-234)
select_daily(store, stamps, days) ==
    DailyFrom(InWindow(store, stamps, days), stamps, 0, days)

\* get_cost_summary's second SELECT (lines 237-247), each NULL sum of an
\* empty window read as zero by `or 0` (lines 264-266)
select_totals(store, stamps, days) == cost_summary(InWindow(store, stamps, days))

\* the dict lines 251-269 build
SummaryPayload(daily, totals) ==
    Payload(FALSE, "dict",
            {"period_days", "start_date", "daily_breakdown", "total_summary"},
            daily, totals, <<>>)

\* the dict of an except branch: {"error": str(e)}
ErrorPayload == Payload(FALSE, "dict", {"error"}, <<>>, ZeroTotals, <<>>)

\* CostTracker.get_model_breakdown: one SELECT grouped by model and provider;
\* every request is priced for the one configured model, so the window has
\* one group or none
get_model_breakdown(store, stamps, days, up) ==
    IF ~up THEN ErrorPayload
    ELSE LET window == InWindow(store, stamps, days)
         IN  Payload(FALSE, "dict", {"period_days", "models"},
                     IF window = {} THEN <<>>
                     ELSE <<[model |-> "gpt-3.5-turbo-0125", provider |-> "openai",
                             requests |-> Cardinality(window),
                             tokens |-> SumColumn(window, "total_tokens"),
                             cost |-> SumColumn(window, "total_cost")]>>,
                     ZeroTotals, <<>>)

\* ORDER BY daily_cost DESC, rows of equal cost in the order of the grouping
RECURSIVE InsertByCost(_, _)
InsertByCost(row, sorted) ==
    IF sorted = <<>> THEN <<row>>
    ELSE IF row.cost > Head(sorted).cost THEN <<row>> \o sorted
         ELSE <<Head(sorted)>> \o InsertByCost(row, Tail(sorted))

RECURSIVE SortByCost(_)
SortByCost(rows) ==
    IF rows = <<>> THEN <<>>
    ELSE InsertByCost(rows[Len(rows)], SortByCost(SubSeq(rows, 1, Len(rows) - 1)))

\* CostTracker.get_cost_alerts: the days of the last week whose cost is
\* above the threshold, and an empty list when the query fails
get_cost_alerts(store, stamps, threshold, up) ==
    IF ~up THEN Payload(FALSE, "list", {}, <<>>, ZeroTotals, <<>>)
    ELSE LET days == SelectSeq(select_daily(store, stamps, 7),
                               LAMBDA row : row.cost > threshold)
         IN  Payload(FALSE, "list", {}, SortByCost(days), ZeroTotals, <<>>)

\* CostTracker.export_cost_data, after its get_cost_summary call: JSON of
\* the summary, or a header line and one line per summary["daily_breakdown"]
\* row (a KeyError when the summary is the error dict), or str(summary)
export_cost_data(summary, format) ==
    IF format = "json" THEN [summary EXCEPT !.form = "json"]
    ELSE IF format = "csv"
         THEN IF "daily_breakdown" \in summary.keys
              THEN Payload(FALSE, "csv", {}, <<"header">> \o summary.rows,
                           ZeroTotals, <<>>)
              ELSE Payload(TRUE, "none", {}, <<>>, ZeroTotals, <<>>)
         ELSE [summary EXCEPT !.form = "str"]

EfficiencyKeys ==
    {"period_days", "cost_efficiency", "model_efficiency", "optimization_suggestions"}

\* get_efficiency_metrics of api/v1/costs.py, after its two tracker calls;
\* a quotient is kept as the pair <<dividend, divisor>>
get_efficiency_metrics(summary, breakdown) ==
    IF "error" \in summary.keys \/ "error" \in breakdown.keys
    THEN Payload(FALSE, "dict", EfficiencyKeys \cup {"note"}, <<>>, ZeroTotals,
                 <<"no_cost_data", "consider_cost_effective_models">>)
    ELSE IF summary.totals.total_requests = 0 \/ summary.totals.total_tokens = 0
         THEN Payload(FALSE, "dict", EfficiencyKeys \cup {"note"}, <<>>, ZeroTotals,
                      <<"no_requests_or_tokens">>)
         ELSE LET total_cost == summary.totals.total_cost
                  total_requests == summary.totals.total_requests
                  total_tokens == summary.totals.total_tokens
                  efficient == SelectSeq(breakdown.rows,
                                   LAMBDA m : m.requests > 0 /\ m.tokens > 0)
              IN  Payload(FALSE, "dict", EfficiencyKeys,
                      [i \in DOMAIN efficient |->
                          [model |-> efficient[i].model,
                           provider |-> efficient[i].provider,
                           cost_per_request |-> <<efficient[i].cost, efficient[i].requests>>,
                           cost_per_token |-> <<efficient[i].cost, efficient[i].tokens>>,
                           requests_percentage |->
                               <<efficient[i].requests * 100, total_requests>>]],
                      [total_requests |-> total_requests,
                       total_tokens |-> total_tokens,
                       total_cost |-> total_cost],
                      (IF total_cost > 50 * 1000000
                       THEN <<"use_cost_effective_models">> ELSE <<>>)
                          \o (IF total_tokens > 2000 * total_requests
                              THEN <<"optimize_prompts">> ELSE <<>>))

\* an accounting path with no exception handler on it
TrackRequestCostUnguarded(store, call, pricingUp, up) ==
    [store |-> IF pricingUp /\ up
               THEN track_request(store,
                        CostBreakdown(call.request_id, call.input_tokens,
                            call.output_tokens, call.total_tokens, call.response_length,
                            calculate_cost(call.input_tokens, call.output_tokens)),
                        up)
               ELSE store,
     raised |-> ~(pricingUp /\ up)]

\* ChatEngine._track_request_cost: price the tokens, build the CostBreakdown,
\* track it; whatever fails is printed and swallowed, so nothing is raised
track_request_cost(store, call, pricingUp, up) ==
    [store |-> track_request(store,
                   CostBreakdown(call.request_id, call.input_tokens,
                       call.output_tokens, call.total_tokens, call.response_length,
                       get_estimated_cost(call.input_tokens, call.output_tokens,
                                          pricingUp)),
                   up),
     raised |-> FALSE]

\* the _track_request_cost calls of one get_response, in order
RECURSIVE TrackAll(_, _, _, _)
TrackAll(store, calls, pricingUp, up) ==
    IF calls = <<>> THEN [store |-> store, raised |-> FALSE]
    ELSE LET first == track_request_cost(store, Head(calls), pricingUp, up)
             rest == TrackAll(first.store, Tail(calls), pricingUp, up)
         IN  [store |-> rest.store, raised |-> first.raised \/ rest.raised]

\* an id counted up from the rows of the cost store, which requests that
\* start before either has written read alike
RowCountId == 1 + Cardinality(costs)

\* uuid4: an id no request and no stored record carries
FreshId ==
    LET used == { request_id[r] : r \in DOMAIN request_id }
                    \cup { c.request_id : c \in costs }
    IN  1 + Cardinality(used \ {0})

NoResponse ==
    [kind |-> "NONE", answer |-> "none", answer_len |-> 0, sources |-> <<>>,
     confidence |-> 0, request_id |-> 0, input_tokens |-> 0, output_tokens |-> 0,
     total_tokens |-> 0]

(***************************************************************************)
(* Texts.  A text is a sequence of runs; positions are counted from 0 and  *)
(* an interval [s, e) is a slice text[s:e].                                *)
(***************************************************************************)
SetMin(S) == CHOOSE x \in S : \A y \in S : x <= y
SetMax(S) == CHOOSE x \in S : \A y \in S : x >= y

TLen(t) == SumSeq([i \in 1 .. Len(t) |-> t[i].n])

RunStart(t, k) == SumSeq([i \in 1 .. (k - 1) |-> t[i].n])
RunEnd(t, k) == RunStart(t, k) + t[k].n

CLen(chunk) == chunk.e - chunk.s

\* the runs of class other than whitespace that meet [s, e)
InkRuns(t, s, e) ==
    { k \in 1 .. Len(t) : t[k].c # " " /\ RunStart(t, k) < e /\ RunEnd(t, k) > s }

\* text[s:e].strip(), as an interval of text
Strip(t, s, e) ==
    LET ink == InkRuns(t, s, e)
    IN  IF ink = {} THEN [s |-> s, e |-> s]
        ELSE [s |-> SetMin({ Max(RunStart(t, k), s) : k \in ink }),
              e |-> SetMax({ Min(RunEnd(t, k), e) : k \in ink })]

\* the positions in lo .. hi that hold a character of class c, by run
LastOf(t, c, lo, hi) ==
    { Min(RunEnd(t, k) - 1, hi) :
        k \in { j \in 1 .. Len(t) :
                  /\ t[j].c = c
                  /\ lo <= hi
                  /\ RunStart(t, j) <= hi
                  /\ RunEnd(t, j) - 1 >= lo } }

(***************************************************************************)
(* DocumentProcessor._clean_text_content, on texts of letters, sentence    *)
(* terminators and whitespace (none of which the character filters of      *)
(* lines 346-354 remove): whitespace runs collapse to one space, the text  *)
(* is stripped, and the single line that is left is kept when more than    *)
(* 0.3 of its characters are letters.                                      *)
(***************************************************************************)
RECURSIVE CollapseSpace(_, _)
CollapseSpace(t, afterSpace) ==
    IF t = <<>> THEN <<>>
    ELSE IF Head(t).c = " "
         THEN IF afterSpace THEN CollapseSpace(Tail(t), TRUE)
              ELSE <<[c |-> " ", n |-> 1]>> \o CollapseSpace(Tail(t), TRUE)
         ELSE <<Head(t)>> \o CollapseSpace(Tail(t), FALSE)

NormalizeSpace(t) ==
    LET c == CollapseSpace(t, TRUE)
    IN  IF c # <<>> /\ c[Len(c)].c = " " THEN SubSeq(c, 1, Len(c) - 1) ELSE c

EnglishChars(t) == SumSeq([i \in 1 .. Len(t) |-> IF t[i].c = "a" THEN t[i].n ELSE 0])

clean_text_content(t) ==
    IF t = <<>> THEN t
    ELSE LET line == NormalizeSpace(t)
         IN  IF TLen(line) > 0 /\ 10 * EnglishChars(line) > 3 * TLen(line)
             THEN line
             ELSE <<>>

(***************************************************************************)
(* DocumentProcessor._sentence_based_chunking, on a cleaned text: the      *)
(* sentences are the intervals between the single spaces that follow a     *)
(* terminator, and a buffer of joined sentences is the interval from its   *)
(* first sentence to its last.                                             *)
(***************************************************************************)
RECURSIVE SentencesFrom(_, _, _, _)
SentencesFrom(t, k, pos, from) ==
    IF k > Len(t)
    THEN IF pos > from THEN <<[s |-> from, e |-> pos]>> ELSE <<>>
    ELSE IF t[k].c = " " /\ k > 1 /\ t[k - 1].c = "."
         THEN <<[s |-> from, e |-> pos]>>
                  \o SentencesFrom(t, k + 1, pos + t[k].n, pos + t[k].n)
         ELSE SentencesFrom(t, k + 1, pos + t[k].n, from)

Sentences(t) == SentencesFrom(t, 1, 0, 0)

RECURSIVE PackSentences(_, _, _, _)
PackSentences(sentences, current_chunk, out, config) ==
    IF sentences = <<>>
    THEN IF CLen(current_chunk) > 0 /\ CLen(current_chunk) >= config.min_chunk_size
         THEN Append(out, current_chunk)
         ELSE out
    ELSE LET sentence == Head(sentences)
         IN  IF CLen(current_chunk) + CLen(sentence) + 1 <= config.chunk_size
             THEN PackSentences(Tail(sentences),
                                IF CLen(current_chunk) > 0
                                THEN [s |-> current_chunk.s, e |-> sentence.e]
                                ELSE sentence,
                                out, config)
             ELSE PackSentences(Tail(sentences), sentence,
                                IF /\ CLen(current_chunk) > 0
                                   /\ CLen(current_chunk) >= config.min_chunk_size
                                THEN Append(out, current_chunk)
                                ELSE out,
                                config)

sentence_based_chunking(t, config) ==
    LET packed == PackSentences(Sentences(t), [s |-> 0, e |-> 0], <<>>, config)
    IN  IF packed = <<>> /\ TLen(t) > 0 THEN <<[s |-> 0, e |-> TLen(t)]>> ELSE packed

\* DocumentProcessor._validate_chunks
validate_chunks(cs, config) ==
    /\ cs # <<>>
    /\ \A i \in 1 .. Len(cs) : CLen(cs[i]) >= config.min_chunk_size
    /\ 2 * SumSeq([i \in 1 .. Len(cs) |-> CLen(cs[i])])
           >= 3 * config.min_chunk_size * Len(cs)

(***************************************************************************)
(* DocumentProcessor._fallback_chunking, one iteration of its loop         *)
(***************************************************************************)
find_break_point(t, from, end) ==
    LET terminators == LastOf(t, ".", from + 1, end - 1)
        spaces == LastOf(t, " ", from + 1, end - 1)
    IN  IF terminators # {} THEN SetMax(terminators) + 1
        ELSE IF spaces # {} THEN SetMax(spaces) + 1
        ELSE end

\* lines 289-295: the end of the window that starts at from
WindowEnd(t, from, config) ==
    LET end == from + config.chunk_size
    IN  IF end < TLen(t)
        THEN LET break_point == find_break_point(t, from, end)
             IN  IF break_point > from + (config.chunk_size \div 2)
                 THEN break_point
                 ELSE end
        ELSE end

\* the overlap alone decides the next start
NextStartByOverlap(from, end, config) == end - config.chunk_overlap

\* line 302
NextStart(from, end, config) == Max(from + 1, end - config.chunk_overlap)

\* lines 297-299: the chunks after the window [from, end) is cut
EmitChunk(t, from, end, out, config) ==
    LET chunk == Strip(t, from, Min(end, TLen(t)))
    IN  IF CLen(chunk) > 0 /\ CLen(chunk) >= config.min_chunk_size
        THEN Append(out, chunk)
        ELSE out

\* _fallback_chunking(text) as a whole: the chunks the loop has emitted when
\* it is left, started at from with out emitted so far
RECURSIVE fallback_chunking(_, _, _, _)
fallback_chunking(t, from, out, config) ==
    IF ~(from < TLen(t)) THEN out
    ELSE LET end == WindowEnd(t, from, config)
         IN  fallback_chunking(t, NextStart(from, end, config),
                               EmitChunk(t, from, end, out, config), config)

(***************************************************************************)
(* DocumentProcessor._create_chunks up to the choice of the algorithm      *)
(***************************************************************************)
\* the early return for short texts left out
CreateChunksWithoutShortCut(t, config) ==
    IF TLen(t) = 0 \/ CLen(Strip(t, 0, TLen(t))) = 0
    THEN [route |-> "empty", source |-> t, chunks |-> <<>>]
    ELSE LET cleaned == clean_text_content(t)
             sentence_chunks == sentence_based_chunking(cleaned, config)
         IN  IF validate_chunks(sentence_chunks, config)
             THEN [route |-> "sentence", source |-> cleaned, chunks |-> sentence_chunks]
             ELSE [route |-> "fallback", source |-> cleaned, chunks |-> <<>>]

\* the sentence-aware result returned whatever _validate_chunks would say
CreateChunksUnvalidated(t, config) ==
    IF TLen(t) = 0 \/ CLen(Strip(t, 0, TLen(t))) = 0
    THEN [route |-> "empty", source |-> t, chunks |-> <<>>]
    ELSE IF CLen(Strip(t, 0, TLen(t))) < config.min_chunk_size
    THEN [route |-> "short", source |-> t, chunks |-> <<Strip(t, 0, TLen(t))>>]
    ELSE LET cleaned == clean_text_content(t)
         IN  [route |-> "sentence", source |-> cleaned,
              chunks |-> sentence_based_chunking(cleaned, config)]

create_chunks(t, config) ==
    IF TLen(t) = 0 \/ CLen(Strip(t, 0, TLen(t))) = 0
    THEN [route |-> "empty", source |-> t, chunks |-> <<>>]
    ELSE IF CLen(Strip(t, 0, TLen(t))) < config.min_chunk_size
    THEN [route |-> "short", source |-> t, chunks |-> <<Strip(t, 0, TLen(t))>>]
    ELSE LET cleaned == clean_text_content(t)
             sentence_chunks == sentence_based_chunking(cleaned, config)
         IN  IF validate_chunks(sentence_chunks, config)
             THEN [route |-> "sentence", source |-> cleaned, chunks |-> sentence_chunks]
             ELSE [route |-> "fallback", source |-> cleaned, chunks |-> <<>>]

(***************************************************************************)
(* Chunker inputs.  A text is built from segments: a word of letters       *)
(* followed by a terminator, a space, or both.                             *)
(***************************************************************************)
Run(c, n) == IF n > 0 THEN <<[c |-> c, n |-> n]>> ELSE <<>>

Segment(body, tail) ==
    Run("a", body)
        \o (IF tail \in {".", ". "} THEN Run(".", 1) ELSE <<>>)
        \o (IF tail \in {" ", ". "} THEN Run(" ", 1) ELSE <<>>)

SegmentTexts == { Segment(body, tail) : body \in BodyLens, tail \in Tails }

RECURSIVE TextsOfSegments(_)
TextsOfSegments(k) ==
    IF k = 0 THEN { <<>> }
    ELSE { t \o seg : t \in TextsOfSegments(k - 1), seg \in SegmentTexts }

Texts == UNION { TextsOfSegments(k) : k \in 0 .. MaxSegments }

(***************************************************************************)
(* Ingestion into the Vector Store.  A record is [id, category, text]; the *)
(* id of chunk i of a file is the pair <<file, i>> (md5 of the path, "_",  *)
(* i), and the text of a chunk is told apart by the version of the file it *)
(* was cut from.                                                           *)
(***************************************************************************)
Documents ==
    { [file |-> "pet_policy.md", category |-> "policies"],
      [file |-> "leave_policy.md", category |-> "policies"],
      [file |-> "paper.pdf", category |-> "research"] }

Categories == { doc.category : doc \in Documents }
Versions == {1, 2}

\* collection.add on an id the collection holds: chromadb either keeps
\* the stored record and goes on, or raises
ChromaBuilds == {"ignores", "raises"}

\* collection.get / collection.delete of clear_category work; or the get
\* raises (a where/include argument the installed chromadb rejects, a store
\* error) and the fallback clear works; or the store is down for both
ClearOutcomes == {"ok", "get_raised", "store_down"}

NoOp == [op |-> "none", file |-> "", category |-> "", version |-> 0, n |-> 0,
         outcome |-> ""]

IdsOf(store) == { rec.id : rec \in store }

\* _create_chunk_data: the id and the metadata category of chunk i
create_chunk_data(doc, version, i) ==
    [id |-> <<doc.file, i>>, category |-> doc.category, text |-> version]

\* VectorEngine.add_document: collection.add
add_document(store, rec, build) ==
    IF rec.id \in IdsOf(store)
    THEN [store |-> store, raised |-> build = "raises"]
    ELSE [store |-> store \cup {rec}, raised |-> FALSE]

\* _process_single_document, lines 156-166: the chunks are added in order,
\* and an exception of add_document leaves the loop
RECURSIVE AddChunks(_, _, _, _, _, _)
AddChunks(store, doc, version, i, n, build) ==
    IF i >= n THEN [store |-> store, raised |-> FALSE]
    ELSE LET added == add_document(store, create_chunk_data(doc, version, i), build)
         IN  IF added.raised THEN added
             ELSE AddChunks(added.store, doc, version, i + 1, n, build)

\* VectorEngine.clear_collection: delete and recreate the collection
clear_collection(store, outcome) ==
    IF outcome = "store_down" THEN store ELSE {}

\* VectorEngine.clear_category
clear_category(store, category, outcome) ==
    IF outcome = "ok"
    THEN { rec \in store : rec.category # category }
    ELSE clear_collection(store, outcome)

(***************************************************************************)
(* _clean_text_content on a document of several lines.  A line is a text   *)
(* of letters followed by characters that are neither letters nor          *)
(* whitespace (digits, punctuation); the lines drawn hold only characters  *)
(* the substitutions of lines 347-355 keep.  A newline is whitespace to    *)
(* re.sub(r'\s+', ' ', .), so the document is the lines with one           *)
(* whitespace character between them.                                      *)
(***************************************************************************)
\* the lines of a document
MaxLines == 2
LetterCounts == {0, 3, 10}
OtherCounts == {0, 5, 7}

LineTexts ==
    { Run("a", letters) \o Run(".", others) :
        letters \in LetterCounts, others \in OtherCounts } \ { <<>> }

RawContents == UNION { [1 .. k -> LineTexts] : k \in 1 .. MaxLines }

\* "\n".join(lines)
RECURSIVE JoinLines(_)
JoinLines(lines) ==
    IF lines = <<>> THEN <<>>
    ELSE IF Len(lines) = 1 THEN lines[1]
         ELSE lines[1] \o Run(" ", 1) \o JoinLines(Tail(lines))

NoCleaned == [status |-> "none", text |-> <<>>]

(***************************************************************************)
(* Fixed-size chunking with overlap: chunk_text of test/test_chunking.py   *)
(* and _create_chunks of core/engines/document_processor.py.  A chunk is   *)
(* an interval [s, e) of the text.  The texts drawn hold no blank line, so *)
(* the search for a paragraph break finds none.                            *)
(***************************************************************************)
\* chunk_size and chunk_overlap of the engine's DocumentProcessor
EngineChunkSize == 500
EngineChunkOverlap == 100

FixedBodyLens == {0, 300, 450}
FixedTexts ==
    { Segment(body, tail) \o Run("a", rest) :
        body \in FixedBodyLens, tail \in Tails, rest \in FixedBodyLens }

\* the sizes and overlaps chunk_text is called with: its defaults and a
\* small window
FixedSizes ==
    { [size |-> EngineChunkSize, overlap |-> EngineChunkOverlap],
      [size |-> DefaultMinChunkSize, overlap |-> DefaultMinChunkSize \div 5] }

FixedCalls ==
    { [fn |-> "chunk_text", text |-> t, size |-> sz.size, overlap |-> sz.overlap] :
        t \in FixedTexts, sz \in FixedSizes }
    \cup { [fn |-> "_create_chunks", text |-> t, size |-> EngineChunkSize,
            overlap |-> EngineChunkOverlap] : t \in FixedTexts }

NoFixedChunks == [status |-> "none", chunks |-> <<>>]

\* chunk_text(text, size, overlap): the loop from start on, out being the
\* chunks appended so far
RECURSIVE chunk_text(_, _, _, _, _)
chunk_text(t, size, overlap, from, out) ==
    IF ~(from < TLen(t)) THEN out
    ELSE LET end == Min(from + size, TLen(t))
             appended == Append(out, [s |-> from, e |-> end])
         IN  IF end >= TLen(t) THEN appended
             ELSE chunk_text(t, size, overlap, from + size - overlap, appended)

\* text.rfind(".", from, end), -1 when there is none
RFindTerminator(t, from, end) ==
    LET found == LastOf(t, ".", from, end - 1)
    IN  IF found = {} THEN -1 ELSE SetMax(found)

\* lines 87-99 of the engine's _create_chunks: the end of the window that
\* starts at from
EngineWindowEnd(t, from) ==
    LET end == from + EngineChunkSize
    IN  IF end < TLen(t)
        THEN LET sentence_end == RFindTerminator(t, from, end)
             IN  IF sentence_end > from + (EngineChunkSize \div 2)
                 THEN sentence_end + 1
                 ELSE end
        ELSE end

\* DocumentProcessor._create_chunks(text) of core/engines: the loop from
\* start on
RECURSIVE engine_create_chunks(_, _, _)
engine_create_chunks(t, from, out) ==
    IF ~(from < TLen(t)) THEN out
    ELSE LET end == EngineWindowEnd(t, from)
             chunk == Strip(t, from, Min(end, TLen(t)))
         IN  engine_create_chunks(t, end - EngineChunkOverlap,
                                  IF CLen(chunk) > 0 THEN Append(out, chunk) ELSE out)

(***************************************************************************)
(* One ingestion run: process_all_documents clears the collection and      *)
(* hands every supported file of every category to                        *)
(* _process_single_document.  A file of the run is a document with what    *)
(* parse_document makes of it: "ok" with n, the chunks its content is cut  *)
(* into (none when the content is insufficient); "failed", the conversion  *)
(* having raised an error whose str() has error_len letters; or "missing", *)
(* the file having gone since the folder was listed.                       *)
(***************************************************************************)
\* the lengths of str(e) of a failed conversion
ErrorLens == {0, 40}
\* the least length of cleaned content that is chunked at all
MinContentLen == 50

\* the folder in the order the run walks it
FolderOrder ==
    <<[file |-> "leave_policy.md", category |-> "policies"],
      [file |-> "pet_policy.md", category |-> "policies"],
      [file |-> "paper.pdf", category |-> "research"]>>

Conversions ==
    { [parse |-> "ok", n |-> n, error_len |-> 0] : n \in 0 .. MaxDocChunks }
        \cup { [parse |-> "failed", n |-> 0, error_len |-> l] : l \in ErrorLens }
        \cup { [parse |-> "missing", n |-> 0, error_len |-> 0] }

\* the runs: every file of the folder with one of the conversions
Runs ==
    { [i \in DOMAIN FolderOrder |->
          [doc |-> FolderOrder[i], parse |-> conv[i].parse, n |-> conv[i].n,
           error_len |-> conv[i].error_len]] :
        conv \in [DOMAIN FolderOrder -> Conversions] }

\* a file name as a text; its "_" and "." are characters that are neither
\* letters nor whitespace
FileNameText(file) ==
    IF file = "leave_policy.md"
    THEN Run("a", 5) \o Run(".", 1) \o Run("a", 6) \o Run(".", 1) \o Run("a", 2)
    ELSE IF file = "pet_policy.md"
         THEN Run("a", 3) \o Run(".", 1) \o Run("a", 6) \o Run(".", 1) \o Run("a", 2)
         ELSE Run("a", 5) \o Run(".", 1) \o Run("a", 3)

\* parse_document's except branch (document_parser.py, lines 96-104): the
\* content "# Parsing Error\n\nCould not parse {name}: {e}"; the "#" and the
\* ":" are characters that are neither letters nor whitespace
ParsingErrorContent(file, error_len) ==
    Run(".", 1) \o Run(" ", 1) \o Run("a", 7) \o Run(" ", 1) \o Run("a", 5)
        \o Run(" ", 2)
        \o Run("a", 5) \o Run(" ", 1) \o Run("a", 3) \o Run(" ", 1) \o Run("a", 5)
        \o Run(" ", 1) \o FileNameText(file) \o Run(".", 1) \o Run(" ", 1)
        \o Run("a", error_len)

\* the "#" is not among the characters line 355 keeps
DropHash(t) == IF t # <<>> /\ Head(t).c = "." THEN Tail(t) ELSE t

\* DocumentProcessor._process_single_document: parse (a missing file raises
\* out of parse_document, a failed conversion only prints a warning), clean,
\* drop content below 50 characters, chunk, add every chunk to the store
process_single_document(store, f, build, config) ==
    IF f.parse = "missing" THEN [store |-> store, raised |-> TRUE, chunks |-> 0]
    ELSE LET n == IF f.parse = "ok" THEN f.n
                  ELSE LET content ==
                               clean_text_content(
                                   DropHash(ParsingErrorContent(f.doc.file, f.error_len)))
                       IN  IF TLen(content) < MinContentLen THEN 0
                           ELSE Len(create_chunks(content, config).chunks)
             res == AddChunks(store, f.doc, 1, 0, n, build)
         IN  [store |-> res.store, raised |-> res.raised, chunks |-> n]

(***************************************************************************)
(* The streaming variant.  The answer text is a sequence of characters,    *)
(* each told apart by the text it belongs to and its position in it: a     *)
(* generated answer has the length the Generator gave it, a fallback       *)
(* answer is a text of two characters.                                     *)
(***************************************************************************)
AnswerText(resp) ==
    [i \in 1 .. (IF resp.answer = "generated" THEN resp.answer_len ELSE 2) |->
        <<resp.answer, i>>]

StartEvent == [event |-> "start", content |-> <<>>, sources |-> <<>>, confidence |-> 0]
DoneEvent == [event |-> "done", content |-> <<>>, sources |-> <<>>, confidence |-> 0]
ErrorEvent == [event |-> "error", content |-> <<>>, sources |-> <<>>, confidence |-> 0]
TokenEvent(char) == [event |-> "token", content |-> char, sources |-> <<>>, confidence |-> 0]
SourcesEvent(resp) ==
    [event |-> "sources", content |-> <<>>, sources |-> resp.sources,
     confidence |-> resp.confidence]

\* a handler that sends the sources before the text
StreamEventsSourcesFirst(resp) ==
    <<SourcesEvent(resp)>>
        \o [i \in 1 .. Len(AnswerText(resp)) |-> TokenEvent(AnswerText(resp)[i])]
        \o <<DoneEvent>>

\* generate_stream_response, lines 68-78: what is yielded once get_response
\* has returned
stream_events(resp) ==
    [i \in 1 .. Len(AnswerText(resp)) |-> TokenEvent(AnswerText(resp)[i])]
        \o <<SourcesEvent(resp)>>
        \o <<DoneEvent>>

(***************************************************************************)
(* Actions                                                                 *)
(***************************************************************************)
\* VectorEngine.search(query, limit), called on its own
DirectSearch(limit) ==
    /\ LET res == search(collection, limit)
       IN  /\ searchStatus' = res.status
           /\ searchHits' = res.hits
           /\ storeQueries' = res.queries
    /\ searchLimit' = limit
    /\ UNCHANGED <<collection, chatVars, costVars, chunkVars, storeVars, streamVars,
                   offlineVars>>

\* get_response, lines 61-74: the request id, the search and the dedup.  An
\* unreachable Vector Store raises out of get_response.
Retrieve(r, query, storeUp) ==
    /\ pc[r] = "idle"
    /\ request_id' = [request_id EXCEPT ![r] = FreshId]
    /\ user_query' = [user_query EXCEPT ![r] = query]
    /\ IF storeUp
       THEN LET res == search(collection, RetrievalLimit)
            IN  /\ fetched' = [fetched EXCEPT ![r] =
                       FormatResults(QueryStore(collection, SearchFetch(RetrievalLimit)))]
                /\ unique_docs' = [unique_docs EXCEPT ![r] = DedupeByTitle(res.hits)]
                /\ pc' = [pc EXCEPT ![r] =
                       IF res.status = "returned" THEN "retrieved" ELSE "raised"]
       ELSE /\ pc' = [pc EXCEPT ![r] = "raised"]
            /\ UNCHANGED <<fetched, unique_docs>>
    /\ UNCHANGED <<collection, searchVars, generated, response, costVars, chunkVars, storeVars, streamVars,
                   offlineVars>>

\* get_response, lines 76-171: the generation, the cost record, the answer.
\* An exception that left _track_request_cost in the try branch would reach
\* the except branch, whose own _track_request_cost call meets the same
\* store and pricing, and so leave get_response.
Generate(r, out, pricingUp, costStoreUp) ==
    /\ pc[r] = "retrieved"
    /\ LET res == GenerateStep(request_id[r], user_query[r], unique_docs[r], out)
           acc == TrackAll(costs, res.track, pricingUp, costStoreUp)
       IN  /\ response' = [response EXCEPT ![r] =
                  IF acc.raised
                  THEN Propagate(request_id[r], user_query[r], unique_docs[r], out).response
                  ELSE res.response]
           /\ pc' = [pc EXCEPT ![r] =
                  IF acc.raised \/ res.response.kind = "ERROR"
                  THEN "raised" ELSE res.response.kind]
           /\ costs' = acc.store
           /\ tracked' = [tracked EXCEPT ![r] =
                  [calls |-> Len(res.track), up |-> costStoreUp, priced |-> pricingUp,
                   usage |-> out.usage]]
    /\ generated' = [generated EXCEPT ![r] = out.kind]
    /\ UNCHANGED <<collection, searchVars, request_id, user_query, fetched, unique_docs,
                   trackLog, chunkVars, storeVars, streamVars, offlineVars>>

\* CostTracker.track_request(cost_breakdown), called on its own
TrackRequest(cost_breakdown, up) ==
    /\ Len(trackLog) < MaxTrackCalls
    /\ costs' = track_request(costs, cost_breakdown, up)
    /\ trackLog' = Append(trackLog,
                       [cost_breakdown |-> cost_breakdown, up |-> up,
                        summary |-> cost_summary(track_request(costs, cost_breakdown, up))])
    /\ UNCHANGED <<collection, searchVars, chatVars, tracked, chunkVars, storeVars, streamVars,
                   offlineVars>>

\* CostTracker.track_request(cost_breakdown) with the timestamp the caller
\* gave the CostBreakdown
TrackRequestAt(cost_breakdown, timestamp, up) ==
    /\ costs' = track_request(costs, cost_breakdown, up)
    /\ timestamps' = IF up
                     THEN [timestamps EXCEPT ![cost_breakdown.request_id] = timestamp]
                     ELSE timestamps
    /\ UNCHANGED <<collection, searchVars, chatVars, tracked, trackLog, chunkVars,
                   storeVars, streamVars, ingestVars, priceVars, cleanVars, fixedVars,
                   apc, asked, daily_data, got_summary, payload>>

\* get_cost_summary has returned `summary`: to the caller of summary itself,
\* or to the export or the efficiency endpoint that called it
SummaryReturns(op, summary) ==
    /\ got_summary' = summary
    /\ IF op = "summary"
       THEN apc' = "done" /\ payload' = summary
       ELSE apc' = "summarised" /\ payload' = payload

\* get_cost_summary(days), called for itself (op "summary"), by
\* export_cost_data (op "export") or by get_efficiency_metrics (op
\* "efficiency"), up to its first SELECT: the per-day rows are fetched, or
\* the connection or the query fails and the except branch returns
AskSummary(op, days, format, up) ==
    /\ apc = "idle"
    /\ asked' = [op |-> op, days |-> days, format |-> format]
    /\ IF up
       THEN /\ daily_data' = select_daily(costs, timestamps, days)
            /\ apc' = "daily"
            /\ UNCHANGED <<got_summary, payload>>
       ELSE /\ daily_data' = <<>>
            /\ SummaryReturns(op, ErrorPayload)
    /\ UNCHANGED <<collection, searchVars, chatVars, costVars, chunkVars, storeVars,
                   streamVars, ingestVars, priceVars, cleanVars, fixedVars, timestamps>>

\* get_cost_summary from its second SELECT to its return
SummaryTotals(up) ==
    /\ apc = "daily"
    /\ SummaryReturns(asked.op,
                      IF up
                      THEN SummaryPayload(daily_data,
                               select_totals(costs, timestamps, asked.days))
                      ELSE ErrorPayload)
    /\ UNCHANGED <<collection, searchVars, chatVars, costVars, chunkVars, storeVars,
                   streamVars, ingestVars, priceVars, cleanVars, fixedVars, timestamps, asked, daily_data>>

\* export_cost_data after its get_cost_summary call
ExportCostData ==
    /\ apc = "summarised"
    /\ asked.op = "export"
    /\ payload' = export_cost_data(got_summary, asked.format)
    /\ apc' = "done"
    /\ UNCHANGED <<collection, searchVars, chatVars, costVars, chunkVars, storeVars,
                   streamVars, ingestVars, priceVars, cleanVars, fixedVars, timestamps, asked, daily_data, got_summary>>

\* get_efficiency_metrics after its get_cost_summary call: the breakdown is
\* read and the metrics are computed
EfficiencyMetrics(up) ==
    /\ apc = "summarised"
    /\ asked.op = "efficiency"
    /\ payload' = get_efficiency_metrics(got_summary,
                      get_model_breakdown(costs, timestamps, asked.days, up))
    /\ apc' = "done"
    /\ UNCHANGED <<collection, searchVars, chatVars, costVars, chunkVars, storeVars,
                   streamVars, ingestVars, priceVars, cleanVars, fixedVars, timestamps, asked, daily_data, got_summary>>

\* CostTracker.get_model_breakdown(days)
ModelBreakdown(days, up) ==
    /\ apc = "idle"
    /\ asked' = [op |-> "breakdown", days |-> days, format |-> "none"]
    /\ payload' = get_model_breakdown(costs, timestamps, days, up)
    /\ apc' = "done"
    /\ UNCHANGED <<collection, searchVars, chatVars, costVars, chunkVars, storeVars,
                   streamVars, ingestVars, priceVars, cleanVars, fixedVars, timestamps, daily_data, got_summary>>

\* CostTracker.get_cost_alerts(threshold)
CostAlerts(threshold, up) ==
    /\ apc = "idle"
    /\ asked' = [op |-> "alerts", days |-> 7, format |-> "none"]
    /\ payload' = get_cost_alerts(costs, timestamps, threshold, up)
    /\ apc' = "done"
    /\ UNCHANGED <<collection, searchVars, chatVars, costVars, chunkVars, storeVars,
                   streamVars, ingestVars, priceVars, cleanVars, fixedVars, timestamps, daily_data, got_summary>>

\* the caller has taken its answer; the next query may start
NextQuery ==
    /\ apc = "done"
    /\ apc' = "idle"
    /\ asked' = NoQuery
    /\ daily_data' = <<>>
    /\ got_summary' = NoPayload
    /\ payload' = NoPayload
    /\ UNCHANGED <<collection, searchVars, chatVars, costVars, chunkVars, storeVars,
                   streamVars, ingestVars, priceVars, cleanVars, fixedVars, timestamps>>

\* one CostCalculator.calculate_cost call
CalculateCost(halves_up) ==
    /\ quoted.status = "none"
    /\ quoted' = calculate_cost_for(quote.model, quote.input_tokens, quote.output_tokens,
                                    quote.provider, halves_up)
    /\ UNCHANGED <<onlineVars, queryVars, ingestVars, cleanVars, fixedVars, quote>>

\* one _clean_text_content(text) call on the parsed content
CleanTextContent ==
    /\ cleaned_content.status = "none"
    /\ cleaned_content' = [status |-> "returned",
                           text |-> clean_text_content(JoinLines(raw_content))]
    /\ UNCHANGED <<onlineVars, queryVars, ingestVars, priceVars, fixedVars, raw_content>>

\* one call of chunk_text or of the engine's _create_chunks
FixedChunking ==
    /\ fixed_chunks.status = "none"
    /\ fixed_chunks' =
           [status |-> "returned",
            chunks |-> IF fixed_call.fn = "chunk_text"
                       THEN chunk_text(fixed_call.text, fixed_call.size,
                                       fixed_call.overlap, 0, <<>>)
                       ELSE engine_create_chunks(fixed_call.text, 0, <<>>)]
    /\ UNCHANGED <<onlineVars, queryVars, ingestVars, priceVars, cleanVars, fixed_call>>

\* process_all_documents, lines 61-64: the collection is cleared
ProcessAllDocuments ==
    /\ fpc = "new"
    /\ stored' = clear_collection(stored, "ok")
    /\ fpc' = "running"
    /\ UNCHANGED <<chroma, lastOp, collection, searchVars, chatVars, costVars, chunkVars,
                   streamVars, queryVars, priceVars, cleanVars, fixedVars, files, report>>

\* _process_category, lines 108-116: the next file of the run goes through
\* _process_single_document; an exception of it is printed and the loop
\* goes on
ProcessFile ==
    /\ fpc = "running"
    /\ Len(report) < Len(files)
    /\ LET f == files[Len(report) + 1]
           res == process_single_document(stored, f, chroma, DefaultChunkConfig)
       IN  /\ stored' = res.store
           /\ report' = Append(report,
                            [file |-> f.doc.file,
                             outcome |-> IF res.raised THEN "error" ELSE "processed",
                             chunks |-> res.chunks])
    /\ UNCHANGED <<chroma, lastOp, collection, searchVars, chatVars, costVars, chunkVars,
                   streamVars, queryVars, priceVars, cleanVars, fixedVars, files, fpc>>

\* process_all_documents, lines 87-94: the run returns its counts
ProcessingComplete ==
    /\ fpc = "running"
    /\ Len(report) = Len(files)
    /\ fpc' = "done"
    /\ UNCHANGED <<storeVars, collection, searchVars, chatVars, costVars, chunkVars,
                   streamVars, queryVars, priceVars, cleanVars, fixedVars, files, report>>

\* DocumentProcessor(vector_engine, chunk_config): the configuration is
\* stored and validated; a rejected one raises out of the constructor, and
\* no DocumentProcessor exists to chunk with
NewDocumentProcessor ==
    /\ cpc = "new"
    /\ cpc' = IF validate_chunk_config(chunk_config) THEN "ready" ELSE "config_error"
    /\ UNCHANGED <<text, chunk_config, route, source, start, chunks, collection,
                   searchVars, chatVars, costVars, storeVars, streamVars, offlineVars>>

\* DocumentProcessor._create_chunks(text): the short-text return, the
\* cleaning, the sentence-aware algorithm and its validation; a rejected
\* result enters the fallback loop
CreateChunks ==
    /\ cpc = "ready"
    /\ LET res == create_chunks(text, chunk_config)
       IN  /\ route' = res.route
           /\ source' = res.source
           /\ chunks' = res.chunks
           /\ cpc' = IF res.route = "fallback" /\ 0 < TLen(res.source)
                     THEN "loop" ELSE "done"
    /\ start' = 0
    /\ UNCHANGED <<text, chunk_config, collection, searchVars, chatVars, costVars, storeVars, streamVars,
                   offlineVars>>

\* chunk_text_by_strategy(text, "fallback"): the fallback algorithm on its own
StrategyFallback ==
    /\ cpc = "ready"
    /\ route' = "strategy"
    /\ source' = text
    /\ chunks' = <<>>
    /\ start' = 0
    /\ cpc' = IF 0 < TLen(text) THEN "loop" ELSE "done"
    /\ UNCHANGED <<text, chunk_config, collection, searchVars, chatVars, costVars, storeVars, streamVars,
                   offlineVars>>

\* one iteration of the while loop of _fallback_chunking
FallbackStep ==
    /\ cpc = "loop"
    /\ LET end == WindowEnd(source, start, chunk_config)
           next == NextStart(start, end, chunk_config)
       IN  /\ chunks' = EmitChunk(source, start, end, chunks, chunk_config)
           /\ start' = next
           /\ cpc' = IF next >= TLen(source) THEN "done" ELSE "loop"
    /\ UNCHANGED <<text, chunk_config, route, source, collection, searchVars,
                   chatVars, costVars, storeVars, streamVars, offlineVars>>

\* DocumentProcessor._process_single_document(file_path, category): version
\* is what the file holds, n the chunks it is cut into
IngestDocument(doc, version, n) ==
    /\ LET res == AddChunks(stored, doc, version, 0, n, chroma)
       IN  /\ stored' = res.store
           /\ lastOp' = [op |-> "ingest", file |-> doc.file, category |-> doc.category,
                         version |-> version, n |-> n,
                         outcome |-> IF res.raised THEN "raised" ELSE "ok"]
    /\ UNCHANGED <<chroma, collection, searchVars, chatVars, costVars, chunkVars, streamVars,
                   offlineVars>>

\* VectorEngine.clear_category(category)
ClearCategory(category, outcome) ==
    /\ stored' = clear_category(stored, category, outcome)
    /\ lastOp' = [NoOp EXCEPT !.op = "clear_category", !.category = category,
                              !.outcome = outcome]
    /\ UNCHANGED <<chroma, collection, searchVars, chatVars, costVars, chunkVars, streamVars,
                   offlineVars>>

\* VectorEngine.clear_collection()
ClearCollection(outcome) ==
    /\ stored' = clear_collection(stored, outcome)
    /\ lastOp' = [NoOp EXCEPT !.op = "clear_collection", !.outcome = outcome]
    /\ UNCHANGED <<chroma, collection, searchVars, chatVars, costVars, chunkVars, streamVars,
                   offlineVars>>

\* generate_stream_response(message): the start event
StreamStart ==
    /\ spc = "new"
    /\ events' = Append(events, StartEvent)
    /\ spc' = "started"
    /\ UNCHANGED <<collection, searchVars, chatVars, costVars, chunkVars, storeVars,
                   offlineVars>>

\* the handler's call of get_response(message), in its two steps
StreamRetrieve(query, storeUp) ==
    /\ spc = "started"
    /\ Retrieve(1, query, storeUp)

StreamGenerate(out, pricingUp, costStoreUp) ==
    /\ spc = "started"
    /\ Generate(1, out, pricingUp, costStoreUp)

\* one yield after get_response has returned: the next character of the
\* answer, then the sources and confidence, then the completion event
StreamEmit ==
    /\ spc = "started"
    /\ pc[1] \in {"SUCCESS", "FALLBACK"}
    /\ LET out == stream_events(response[1])
           next == out[Len(events)]
       IN  /\ events' = Append(events, next)
           /\ spc' = IF Len(events) = Len(out) THEN "closed" ELSE "started"
    /\ UNCHANGED <<collection, searchVars, chatVars, costVars, chunkVars, storeVars,
                   offlineVars>>

\* the except branch: get_response raised (the Vector Store was unreachable)
StreamError ==
    /\ spc = "started"
    /\ pc[1] = "raised"
    /\ events' = Append(events, ErrorEvent)
    /\ spc' = "closed"
    /\ UNCHANGED <<collection, searchVars, chatVars, costVars, chunkVars, storeVars,
                   offlineVars>>

InitSearchVars ==
    /\ searchStatus = "idle"
    /\ searchLimit = 0
    /\ searchHits = <<>>
    /\ storeQueries = 0

InitChatVars ==
    /\ pc = [r \in Requests |-> "idle"]
    /\ request_id = [r \in Requests |-> 0]
    /\ user_query = [r \in Requests |-> 0]
    /\ fetched = [r \in Requests |-> <<>>]
    /\ unique_docs = [r \in Requests |-> <<>>]
    /\ generated = [r \in Requests |-> "none"]
    /\ response = [r \in Requests |-> NoResponse]
    /\ costs = {}
    /\ tracked = [r \in Requests |-> [calls |-> 0, up |-> TRUE, priced |-> TRUE,
                                       usage |-> NoUsage]]
    /\ trackLog = <<>>

InitStreamVars ==
    /\ spc = "idle"
    /\ events = <<>>

InitQueryVars ==
    /\ timestamps = [id \in 1 .. MaxCostIds |-> 0]
    /\ apc = "idle"
    /\ asked = NoQuery
    /\ daily_data = <<>>
    /\ got_summary = NoPayload
    /\ payload = NoPayload

InitIngestVars ==
    /\ files = <<>>
    /\ fpc = "idle"
    /\ report = <<>>

InitPriceVars ==
    /\ quote = NoQuote
    /\ quoted = NoCost

InitCleanVars ==
    /\ raw_content = <<>>
    /\ cleaned_content = NoCleaned

InitFixedVars ==
    /\ fixed_call = NoFixedCall
    /\ fixed_chunks = NoFixedChunks

InitOfflineVars ==
    /\ InitQueryVars
    /\ InitIngestVars
    /\ InitPriceVars
    /\ InitCleanVars
    /\ InitFixedVars

InitStoreVars ==
    /\ stored = {}
    /\ chroma = "ignores"
    /\ lastOp = NoOp

InitChunkVars ==
    /\ text = <<>>
    /\ chunk_config = DefaultChunkConfig
    /\ cpc = "idle"
    /\ route = "none"
    /\ source = <<>>
    /\ start = 0
    /\ chunks = <<>>

\* the Retriever on its own: direct searches, and the retrieval stage of
\* one request
InitSearch ==
    /\ InitOfflineVars
    /\ collection \in Collections(MaxChunks)
    /\ InitSearchVars
    /\ InitChatVars
    /\ InitChunkVars
    /\ InitStreamVars
    /\ InitStoreVars

NextSearch ==
    \/ \E limit \in Limits : DirectSearch(limit)
    \/ \E storeUp \in BOOLEAN : Retrieve(1, 3, storeUp)

SpecSearch == InitSearch /\ [][NextSearch]_vars

\* requests answered over a small store
Init ==
    /\ InitOfflineVars
    /\ collection \in Collections(MaxChatChunks)
    /\ InitSearchVars
    /\ InitChatVars
    /\ InitChunkVars
    /\ InitStreamVars
    /\ InitStoreVars

Next ==
    \/ \E r \in Requests, query \in QueryWords, storeUp \in BOOLEAN :
           Retrieve(r, query, storeUp)
    \/ \E r \in Requests, out \in GenOutcomes, pricingUp \in BOOLEAN,
          costStoreUp \in BOOLEAN :
           Generate(r, out, pricingUp, costStoreUp)

Spec == Init /\ [][Next]_vars

\* one request answered over a store large enough for more than three hits
InitConfidence ==
    /\ InitOfflineVars
    /\ collection \in Collections(MaxConfChunks)
    /\ InitSearchVars
    /\ InitChatVars
    /\ InitChunkVars
    /\ InitStreamVars
    /\ InitStoreVars

NextConfidence ==
    \/ \E query \in QueryWords, storeUp \in BOOLEAN : Retrieve(1, query, storeUp)
    \/ \E out \in GenOutcomes, pricingUp \in BOOLEAN, costStoreUp \in BOOLEAN :
           Generate(1, out, pricingUp, costStoreUp)

SpecConfidence == InitConfidence /\ [][NextConfidence]_vars

\* concurrent requests over one Vector Store and one cost store: each
\* request retrieves, then generates and tracks; the steps of different
\* requests interleave freely, and each write to the cost store is one
\* transaction
InitConcurrent ==
    /\ InitOfflineVars
    /\ collection \in Collections(1)
    /\ InitSearchVars
    /\ pc = [r \in ConcurrentRequests |-> "idle"]
    /\ request_id = [r \in ConcurrentRequests |-> 0]
    /\ user_query = [r \in ConcurrentRequests |-> 0]
    /\ fetched = [r \in ConcurrentRequests |-> <<>>]
    /\ unique_docs = [r \in ConcurrentRequests |-> <<>>]
    /\ generated = [r \in ConcurrentRequests |-> "none"]
    /\ response = [r \in ConcurrentRequests |-> NoResponse]
    /\ costs = {}
    /\ tracked = [r \in ConcurrentRequests |-> [calls |-> 0, up |-> TRUE, priced |-> TRUE,
                                       usage |-> NoUsage]]
    /\ trackLog = <<>>
    /\ InitChunkVars
    /\ InitStreamVars
    /\ InitStoreVars

ConcurrentOutcomes ==
    { out \in GenOutcomes :
        \/ out.kind = "timeout"
        \/ out.kind = "ok" /\ out.usage.present /\ out.usage.total_tokens > 0 }

NextConcurrent ==
    \/ \E r \in ConcurrentRequests, query \in QueryWords : Retrieve(r, query, TRUE)
    \/ \E r \in ConcurrentRequests, out \in ConcurrentOutcomes, costStoreUp \in BOOLEAN :
           Generate(r, out, TRUE, costStoreUp)

SpecConcurrent == InitConcurrent /\ [][NextConcurrent]_vars

\* the cost store on its own: a sequence of track_request calls
InitCost ==
    /\ InitOfflineVars
    /\ collection = <<>>
    /\ InitSearchVars
    /\ InitChatVars
    /\ InitChunkVars
    /\ InitStreamVars
    /\ InitStoreVars

NextCost == \E cost_breakdown \in CostBreakdowns, up \in BOOLEAN : TrackRequest(cost_breakdown, up)

SpecCost == InitCost /\ [][NextCost]_vars

\* ingestion: documents are indexed and re-indexed, categories and the whole
\* collection are cleared, in any order
InitStore ==
    /\ InitOfflineVars
    /\ collection = <<>>
    /\ InitSearchVars
    /\ InitChatVars
    /\ InitChunkVars
    /\ InitStreamVars
    /\ stored = {}
    /\ chroma \in ChromaBuilds
    /\ lastOp = NoOp

NextStore ==
    \/ \E doc \in Documents, version \in Versions, n \in 1 .. MaxDocChunks :
           IngestDocument(doc, version, n)
    \/ \E category \in Categories, outcome \in ClearOutcomes :
           ClearCategory(category, outcome)
    \/ \E outcome \in {"ok", "store_down"} : ClearCollection(outcome)

SpecStore == InitStore /\ [][NextStore]_vars

\* one streaming request over a small store
InitStream ==
    /\ InitOfflineVars
    /\ collection \in Collections(MaxChatChunks)
    /\ InitSearchVars
    /\ InitChatVars
    /\ InitChunkVars
    /\ InitStoreVars
    /\ spc = "new"
    /\ events = <<>>

NextStream ==
    \/ StreamStart
    \/ \E query \in QueryWords, storeUp \in BOOLEAN : StreamRetrieve(query, storeUp)
    \/ \E out \in GenOutcomes, pricingUp \in BOOLEAN, costStoreUp \in BOOLEAN :
           StreamGenerate(out, pricingUp, costStoreUp)
    \/ StreamEmit
    \/ StreamError

SpecStream == InitStream /\ [][NextStream]_vars

\* aggregate queries on the cost store while requests of other callers are
\* tracked
InitAggregate ==
    /\ collection = <<>>
    /\ InitSearchVars
    /\ InitChatVars
    /\ InitChunkVars
    /\ InitStreamVars
    /\ InitStoreVars
    /\ InitOfflineVars

NextAggregate ==
    \/ \E cost_breakdown \in CostBreakdowns, timestamp \in Ages, up \in BOOLEAN :
           TrackRequestAt(cost_breakdown, timestamp, up)
    \/ \E op \in {"summary", "efficiency"}, days \in Windows, up \in BOOLEAN :
           AskSummary(op, days, "none", up)
    \/ \E days \in Windows, format \in Formats, up \in BOOLEAN :
           AskSummary("export", days, format, up)
    \/ \E up \in BOOLEAN : SummaryTotals(up)
    \/ ExportCostData
    \/ \E up \in BOOLEAN : EfficiencyMetrics(up)
    \/ \E days \in Windows, up \in BOOLEAN : ModelBreakdown(days, up)
    \/ \E threshold \in Thresholds, up \in BOOLEAN : CostAlerts(threshold, up)
    \/ NextQuery

SpecAggregate == InitAggregate /\ [][NextAggregate]_vars

\* one ingestion run over the knowledge folder, the store holding what an
\* earlier run left
InitIngest ==
    /\ collection = <<>>
    /\ InitSearchVars
    /\ InitChatVars
    /\ InitChunkVars
    /\ InitStreamVars
    /\ stored \in { {}, {create_chunk_data(FolderOrder[1], 2, 0)} }
    /\ chroma \in ChromaBuilds
    /\ lastOp = NoOp
    /\ InitQueryVars
    /\ InitPriceVars
    /\ InitCleanVars
    /\ InitFixedVars
    /\ files \in Runs
    /\ fpc = "new"
    /\ report = <<>>

NextIngest ==
    \/ ProcessAllDocuments
    \/ ProcessFile
    \/ ProcessingComplete

SpecIngest == InitIngest /\ [][NextIngest]_vars

\* the CostCalculator on its own: one call for some model, provider and
\* token counts
InitPrice ==
    /\ collection = <<>>
    /\ InitSearchVars
    /\ InitChatVars
    /\ InitChunkVars
    /\ InitStreamVars
    /\ InitStoreVars
    /\ InitQueryVars
    /\ InitIngestVars
    /\ InitCleanVars
    /\ InitFixedVars
    /\ quote \in [model : QuoteModels, provider : QuoteProviders,
                  input_tokens : TokenCounts, output_tokens : TokenCounts]
    /\ quoted = NoCost

NextPrice == \E halves_up \in HalvesUp : CalculateCost(halves_up)

SpecPrice == InitPrice /\ [][NextPrice]_vars

\* the pre-cleaning on its own: one call on a document of some lines
InitClean ==
    /\ collection = <<>>
    /\ InitSearchVars
    /\ InitChatVars
    /\ InitChunkVars
    /\ InitStreamVars
    /\ InitStoreVars
    /\ InitQueryVars
    /\ InitIngestVars
    /\ InitPriceVars
    /\ InitFixedVars
    /\ raw_content \in RawContents
    /\ cleaned_content = NoCleaned

NextClean == CleanTextContent

SpecClean == InitClean /\ [][NextClean]_vars

\* fixed-size chunking on its own: one call on some text
InitFixed ==
    /\ collection = <<>>
    /\ InitSearchVars
    /\ InitChatVars
    /\ InitChunkVars
    /\ InitStreamVars
    /\ InitStoreVars
    /\ InitQueryVars
    /\ InitIngestVars
    /\ InitPriceVars
    /\ InitCleanVars
    /\ fixed_call \in FixedCalls
    /\ fixed_chunks = NoFixedChunks

NextFixed == FixedChunking

SpecFixed == InitFixed /\ [][NextFixed]_vars

\* the Chunker: a DocumentProcessor is created with a configuration and, if
\* that succeeds, chunks one text
InitChunk ==
    /\ InitOfflineVars
    /\ collection = <<>>
    /\ InitSearchVars
    /\ InitChatVars
    /\ text \in Texts
    /\ chunk_config \in ChunkConfigs
    /\ cpc = "new"
    /\ route = "none"
    /\ source = <<>>
    /\ start = 0
    /\ chunks = <<>>
    /\ InitStreamVars
    /\ InitStoreVars

NextChunk == NewDocumentProcessor \/ CreateChunks \/ StrategyFallback \/ FallbackStep

SpecChunk == InitChunk /\ [][NextChunk]_vars

(***************************************************************************)
(* Properties                                                              *)
(***************************************************************************)
Answered(r) == response[r].kind \in {"SUCCESS", "FALLBACK"}

DistinctTitles(hits) == Cardinality({ hits[i].title : i \in 1 .. Len(hits) })

SortedByScore(hits) ==
    \A i \in 1 .. Len(hits) : \A j \in i .. Len(hits) : hits[i].score >= hits[j].score

TopScores(r) ==
    LET docs == unique_docs[r]
    IN  { docs[i].score : i \in 1 .. Min(3, Len(docs)) }

C2_OneCostRecordPerRequest ==
    \A r \in Requests :
        (Answered(r) /\ tracked[r].up) =>
            /\ tracked[r].calls = 1
            /\ Cardinality({ c \in costs : c.request_id = request_id[r] }) = 1
            /\ \A c \in costs :
                   c.request_id = request_id[r] =>
                       /\ c.input_tokens = response[r].input_tokens
                       /\ c.total_tokens = response[r].total_tokens

C2_Witness ==
    \E r \in Requests :
        /\ pc[r] = "FALLBACK"
        /\ tracked[r].up
        /\ Cardinality({ c \in costs : c.request_id = request_id[r] }) = 1

\* C3 as stated: on both paths the confidence is in [0,1], and it is 0.0
\* exactly when the request had zero retrieval hits.
C3_ConfidenceZeroIffNoHits ==
    \A r \in Requests :
        Answered(r) =>
            /\ response[r].confidence >= 0
            /\ response[r].confidence <= 12
            /\ (response[r].confidence = 0 <=> unique_docs[r] = <<>>)

\* C3 as amended: a FALLBACK answer has confidence 0.5 whatever the hits; a
\* SUCCESS answer has confidence 0.0 when there are no hits and otherwise
\* the mean of the top three hit scores, which lies between the lowest and the
\* highest of them, so in [-1,1] always and in [0,1] when those scores are.
C3_ConfidenceByPath ==
    \A r \in Requests :
        /\ response[r].kind = "FALLBACK" => response[r].confidence = 6
        /\ (response[r].kind = "SUCCESS" /\ unique_docs[r] = <<>>) =>
               response[r].confidence = 0
        /\ (response[r].kind = "SUCCESS" /\ unique_docs[r] # <<>>) =>
               LET n == Min(3, Len(unique_docs[r]))
                   total == SumSeq([i \in 1 .. n |-> unique_docs[r][i].score])
               IN  /\ response[r].confidence * n = 6 * total
                   /\ \E lo \in TopScores(r) : \E hi \in TopScores(r) :
                          /\ 6 * lo <= response[r].confidence
                          /\ response[r].confidence <= 6 * hi
                   /\ response[r].confidence >= -12
                   /\ response[r].confidence <= 12
                   /\ (\A s \in TopScores(r) : s >= 0) => response[r].confidence >= 0

C3_Witness ==
    \E r \in Requests :
        /\ response[r].kind = "SUCCESS"
        /\ Len(unique_docs[r]) = 4
        /\ unique_docs[r][4].score < unique_docs[r][3].score
        /\ response[r].confidence > 0

\* C4: no two hits in the result of search(query, limit) share a title, so
\* of two stored chunks with one title only the higher-scoring is returned.
C4_SearchTitlesDistinct ==
    searchStatus = "returned" =>
        \A i \in 1 .. Len(searchHits) : \A j \in 1 .. Len(searchHits) :
            i # j => searchHits[i].title # searchHits[j].title

\* C5: the hits used for a query are the fetched neighbours deduplicated by
\* title, then sorted by score descending, then truncated to the limit: they
\* are sorted, at most limit, and exactly limit whenever the fetched
\* neighbours hold at least limit distinct titles.
C5_DedupSortTruncate ==
    \A r \in Requests :
        pc[r] = "retrieved" =>
            /\ SortedByScore(unique_docs[r])
            /\ Len(unique_docs[r]) <= RetrievalLimit
            /\ DistinctTitles(fetched[r]) >= RetrievalLimit =>
                   Len(unique_docs[r]) = RetrievalLimit
            /\ unique_docs[r] =
                   Truncate(SortByScore(DedupeByTitle(fetched[r])), RetrievalLimit)

\* C6: every hit returned by search has a similarity score in [0,1], for
\* every distance the store reports in cosine space.
C6_ScoreInUnitInterval ==
    searchStatus = "returned" =>
        \A i \in 1 .. Len(searchHits) :
            searchHits[i].score >= 0 /\ searchHits[i].score <= 2

\* C7: search on an empty Vector Store returns the empty list after at most
\* one Vector Store query and never raises.
C7_EmptyStoreSearch ==
    (searchStatus # "idle" /\ collection = <<>>) =>
        /\ searchStatus = "returned"
        /\ searchHits = <<>>
        /\ storeQueries <= 1

C7_Witness ==
    /\ collection = <<>>
    /\ searchStatus = "returned"
    /\ storeQueries = 1

\* the document handed to the Chunker, stripped
StrippedDocument == Strip(text, 0, TLen(text))

\* a call of _create_chunks has returned
Chunked == cpc = "done" /\ route \in {"empty", "short", "sentence", "fallback"}

(***************************************************************************)
(* C8: the fallback chunking loop always terminates: under every accepted  *)
(* configuration the loop only runs with start inside the text, every      *)
(* iteration leaves the text alone and strictly increases start (to at     *)
(* least max(start+1, end - overlap)), also when overlap >= chunk_size - 1,*)
(* and the loop is left exactly when start has reached the end of the      *)
(* text; len(text) - start is thus a positive measure that every           *)
(* iteration decreases.                                                    *)
(***************************************************************************)
C8_FallbackLoopTerminates ==
    /\ [](cpc = "loop" => (validate_chunk_config(chunk_config) /\ start < TLen(source)))
    /\ [][cpc = "loop" =>
            /\ source' = source
            /\ start' > start
            /\ start' >= Max(start + 1,
                             WindowEnd(source, start, chunk_config)
                                 - chunk_config.chunk_overlap)
            /\ (cpc' = "done") = (start' >= TLen(source))]_vars

\* the loop has run to the end of a text longer than one window with the
\* largest overlap a configuration may have
C8_Witness ==
    /\ cpc = "done"
    /\ route \in {"fallback", "strategy"}
    /\ chunk_config.chunk_overlap >= chunk_config.chunk_size - 1
    /\ TLen(source) > chunk_config.chunk_size
    /\ start >= TLen(source)

(***************************************************************************)
(* C9: for every document that is not shorter than min_chunk_size, every   *)
(* chunk _create_chunks returns has min_chunk_size <= len(chunk) <=        *)
(* max_chunk_size, whichever algorithm produced it.                        *)
(***************************************************************************)
C9_ChunkSizesWithinBounds ==
    (Chunked /\ CLen(StrippedDocument) >= chunk_config.min_chunk_size) =>
        \A i \in 1 .. Len(chunks) :
            /\ chunk_config.min_chunk_size <= CLen(chunks[i])
            /\ CLen(chunks[i]) <= chunk_config.max_chunk_size

PassesGate(cs, config) ==
    /\ Len(cs) > 0
    /\ \A i \in 1 .. Len(cs) : CLen(cs[i]) >= config.min_chunk_size
    /\ 2 * SumSeq([i \in 1 .. Len(cs) |-> CLen(cs[i])]) >= 3 * config.min_chunk_size * Len(cs)

(***************************************************************************)
(* C11: _create_chunks never returns a sentence-aware result that fails    *)
(* the validation gate.  For a document that is not shorter than           *)
(* min_chunk_size, with the sentence-aware result of the cleaned text at   *)
(* hand: if it has a chunk shorter than min_chunk_size or a mean chunk     *)
(* length below 1.5 * min_chunk_size (or no chunk at all) it is discarded  *)
(* and the chunks returned are those of the fallback algorithm on the      *)
(* cleaned text; otherwise it is returned unchanged.                       *)
(***************************************************************************)
C11_ValidationGate ==
    (Chunked /\ route \in {"sentence", "fallback"}) =>
        LET sentence_chunks == sentence_based_chunking(source, chunk_config)
        IN  /\ source = clean_text_content(text)
            /\ IF PassesGate(sentence_chunks, chunk_config)
               THEN route = "sentence" /\ chunks = sentence_chunks
               ELSE /\ route = "fallback"
                    /\ chunks = fallback_chunking(source, 0, <<>>, chunk_config)

\* a sentence-aware result was discarded and the fallback algorithm's chunks
\* were returned in its place
C11_Witness ==
    /\ Chunked
    /\ route = "fallback"
    /\ sentence_based_chunking(source, chunk_config) # <<>>
    /\ chunks # <<>>
    /\ chunks # sentence_based_chunking(source, chunk_config)

\* the characters of the source text two chunks have in common
Shared(a, b) == Max(0, Min(a.e, b.e) - Max(a.s, b.s))

\* the chunk holds the last character of the document that is not whitespace
ReachedEnd(chunk) == chunk.e >= Strip(source, 0, TLen(source)).e

(***************************************************************************)
(* C12: in the output of the fallback algorithm every pair of consecutive  *)
(* chunks shares at least chunk_overlap characters of the source text,     *)
(* unless the earlier chunk of the pair already reached the end of the     *)
(* document.                                                               *)
(***************************************************************************)
C12_ConsecutiveChunksOverlap ==
    (cpc = "done" /\ route \in {"fallback", "strategy"}) =>
        \A i \in 1 .. (Len(chunks) - 1) :
            \/ ReachedEnd(chunks[i])
            \/ Shared(chunks[i], chunks[i + 1]) >= chunk_config.chunk_overlap

(***************************************************************************)
(* C13: creating a Chunker fails with a configuration error whenever       *)
(* chunk_size < 100, or chunk_overlap >= chunk_size, or min_chunk_size >   *)
(* chunk_size (and only then), and nothing is ever chunked under such a    *)
(* configuration.                                                          *)
(***************************************************************************)
C13_BadConfigRejected ==
    LET bad == \/ chunk_config.chunk_size < 100
               \/ chunk_config.chunk_overlap >= chunk_config.chunk_size
               \/ chunk_config.min_chunk_size > chunk_config.chunk_size
    IN  /\ cpc # "new" => (cpc = "config_error" <=> bad)
        /\ bad => (cpc \in {"new", "config_error"} /\ route = "none" /\ chunks = <<>>)

\* the constructor raised on an overlap as large as the chunk size, on a
\* configuration whose chunk_size and min_chunk_size are acceptable
C13_Witness ==
    /\ cpc = "config_error"
    /\ chunk_config.chunk_overlap >= chunk_config.chunk_size
    /\ chunk_config.chunk_size >= 100
    /\ chunk_config.min_chunk_size <= chunk_config.chunk_size

\* the last two direct track_request calls carried the same CostBreakdown
\* and both found the store available
TrackedTwice ==
    /\ Len(trackLog) >= 2
    /\ trackLog[Len(trackLog)].cost_breakdown = trackLog[Len(trackLog) - 1].cost_breakdown
    /\ trackLog[Len(trackLog)].up
    /\ trackLog[Len(trackLog) - 1].up

(***************************************************************************)
(* C14: track is idempotent per request id: after any sequence of          *)
(* track_request calls the cost store holds at most one record per request *)
(* id, and tracking a CostBreakdown a second time leaves the summary       *)
(* (request count, token sum, cost sum) what it was after the first time.  *)
(***************************************************************************)
C14_TrackIdempotent ==
    /\ \A c1 \in costs : \A c2 \in costs : c1.request_id = c2.request_id => c1 = c2
    /\ cost_summary(costs).total_requests
           = Cardinality({ c.request_id : c \in costs })
    /\ TrackedTwice =>
           /\ trackLog[Len(trackLog)].summary = trackLog[Len(trackLog) - 1].summary
           /\ cost_summary(costs) = trackLog[Len(trackLog) - 1].summary

\* a record was tracked twice in a row while the store held another request
C14_Witness ==
    /\ TrackedTwice
    /\ Cardinality(costs) = 2

(***************************************************************************)
(* C15: a stored CostRecord is immutable: once a record exists for a       *)
(* request id no later operation changes any field of it, a track_request  *)
(* call with the same request id and other field values included.          *)
(***************************************************************************)
C15_StoredRecordImmutable == [][costs \subseteq costs']_vars

(***************************************************************************)
(* C16: for every interleaving of N concurrent requests the writers to the *)
(* cost store never collide: the requests carry pairwise distinct request  *)
(* ids, and every answered request whose write the store accepted has      *)
(* exactly one record under its id, holding its own token counts, whatever *)
(* the other requests wrote before or after; so when all N are answered    *)
(* the store holds N records.                                              *)
(***************************************************************************)
C16_ConcurrentWritersNeverCollide ==
    /\ \A r1 \in DOMAIN pc : \A r2 \in DOMAIN pc :
           (r1 # r2 /\ request_id[r1] # 0) => request_id[r1] # request_id[r2]
    /\ \A r \in DOMAIN pc :
           (Answered(r) /\ tracked[r].up) =>
               /\ Cardinality({ c \in costs : c.request_id = request_id[r] }) = 1
               /\ \A c \in costs :
                      c.request_id = request_id[r] =>
                          /\ c.input_tokens = response[r].input_tokens
                          /\ c.output_tokens = response[r].output_tokens
                          /\ c.total_tokens = response[r].total_tokens
    /\ (\A r \in DOMAIN pc : Answered(r) /\ tracked[r].up) =>
           Cardinality(costs) = Cardinality(DOMAIN pc)

\* two requests that ran concurrently, the second having started first and
\* the two having taken different paths, are both answered and both stored
C16_Witness ==
    /\ Cardinality(DOMAIN pc) >= 2
    /\ \A r \in DOMAIN pc : Answered(r) /\ tracked[r].up
    /\ request_id[1] > request_id[2]
    /\ response[1].kind # response[2].kind
    /\ Cardinality(costs) = Cardinality(DOMAIN pc)

(***************************************************************************)
(* C20: a failure of cost accounting never blocks or changes answer        *)
(* delivery: whether pricing and the cost store work or fail during a      *)
(* request, get_response returns without raising, with the answer text,    *)
(* sources and confidence that the Generator's outcome and the retrieved   *)
(* documents determine, and a request whose generation succeeded is on the *)
(* SUCCESS path.                                                           *)
(***************************************************************************)
C20_AccountingFailureLeavesAnswer ==
    \A r \in Requests :
        generated[r] # "none" =>
            /\ pc[r] = (IF generated[r] = "ok" THEN "SUCCESS" ELSE "FALLBACK")
            /\ response[r].kind = pc[r]
            /\ response[r].answer =
                   (IF generated[r] = "ok" THEN "generated"
                    ELSE create_fallback_response(unique_docs[r]))
            /\ response[r].sources = unique_docs[r]
            /\ response[r].confidence =
                   (IF generated[r] = "ok" THEN calculate_confidence(unique_docs[r])
                    ELSE FallbackConfidence)

\* a generated answer was delivered although pricing and the cost store
\* both failed, and nothing was recorded
C20_Witness ==
    \E r \in Requests :
        /\ pc[r] = "SUCCESS"
        /\ unique_docs[r] # <<>>
        /\ ~tracked[r].up
        /\ ~tracked[r].priced
        /\ costs = {}

(***************************************************************************)
(* C17: clearing a category deletes only the records whose metadata        *)
(* category matches: on every outcome of clear_category(c), every record   *)
(* of every other category is still in the Vector Store, unchanged.        *)
(***************************************************************************)
C17_ClearCategoryKeepsOthers ==
    [][lastOp'.op = "clear_category" =>
          \A rec \in stored : rec.category # lastOp'.category => rec \in stored']_vars

(***************************************************************************)
(* C18: re-ingestion is idempotent: indexing the chunks of a document      *)
(* whose ids are already in the Vector Store overwrites the stored         *)
(* records.  After a document is ingested each of its chunk ids holds the  *)
(* text just ingested, and ingesting into a store that already holds       *)
(* exactly these records leaves the store as it is.                        *)
(***************************************************************************)
C18_ReingestionOverwrites ==
    [][lastOp'.op = "ingest" =>
          LET new == { create_chunk_data([file |-> lastOp'.file,
                                          category |-> lastOp'.category],
                                         lastOp'.version, i) : i \in 0 .. (lastOp'.n - 1) }
          IN  /\ new \subseteq stored'
              /\ new \subseteq stored => stored' = stored]_vars

\* the positions in the stream of the events of one kind
EventsOf(kind) == { i \in 1 .. Len(events) : events[i].event = kind }

\* the increments emitted so far, concatenated in emission order
RECURSIVE ConcatTokens(_)
ConcatTokens(es) ==
    IF es = <<>> THEN <<>>
    ELSE (IF Head(es).event = "token" THEN <<Head(es).content>> ELSE <<>>)
             \o ConcatTokens(Tail(es))

(***************************************************************************)
(* C19: in the streaming variant, for every request that reaches SUCCESS   *)
(* or FALLBACK: the increments emitted so far are at every moment the      *)
(* first characters of the answer, and once the stream is closed they are  *)
(* the full answer text; the sources-and-confidence event is emitted at    *)
(* most once, only after the last increment and with the whole text sent,  *)
(* and exactly once in a closed stream, carrying the answer's sources and  *)
(* confidence; the end-of-stream marker is emitted exactly once, as the    *)
(* last event.                                                             *)
(***************************************************************************)
C19_StreamOrder ==
    pc[1] \in {"SUCCESS", "FALLBACK"} =>
        LET answer == AnswerText(response[1])
            sent == ConcatTokens(events)
        IN  /\ Len(sent) <= Len(answer)
            /\ sent = SubSeq(answer, 1, Len(sent))
            /\ Cardinality(EventsOf("sources")) <= 1
            /\ Cardinality(EventsOf("done")) <= 1
            /\ EventsOf("error") = {}
            /\ \A i \in EventsOf("sources") :
                   /\ \A j \in EventsOf("token") : j < i
                   /\ sent = answer
                   /\ events[i].sources = response[1].sources
                   /\ events[i].confidence = response[1].confidence
            /\ \A i \in EventsOf("done") :
                   /\ i = Len(events)
                   /\ EventsOf("sources") # {}
                   /\ spc = "closed"
            /\ spc = "closed" =>
                   /\ sent = answer
                   /\ Cardinality(EventsOf("sources")) = 1
                   /\ Cardinality(EventsOf("done")) = 1
                   /\ events[Len(events)].event = "done"

\* a generated answer of several characters has been streamed to the end
C19_Witness ==
    /\ spc = "closed"
    /\ pc[1] = "SUCCESS"
    /\ Len(ConcatTokens(events)) > 1
    /\ response[1].sources # <<>>
    /\ events[Len(events)].event = "done"

(***************************************************************************)
(* Aggregate queries on the cost store.                                    *)
(***************************************************************************)
\* the keys under which a summary carries its data
SummaryDataKeys == {"period_days", "start_date", "daily_breakdown", "total_summary"}

\* SUM of one column over the rows of a payload
RECURSIVE SumRows(_, _)
SumRows(rows, column) ==
    IF rows = <<>> THEN 0 ELSE Head(rows)[column] + SumRows(Tail(rows), column)

\* C21: every aggregate query of the cost store (summary, breakdown, alerts,
\* efficiency, export as CSV, as JSON and as text) that has finished has
\* returned a value and has not raised, whether its window held records or
\* not and whether the store answered or failed; and a returned value
\* without rows carries zero totals
C21_AggregateQueriesDegrade ==
    apc = "done" =>
        /\ ~payload.raised
        /\ payload.form \in {"dict", "list", "json", "csv", "str"}
        /\ payload.rows = <<>> /\ asked.op \in {"breakdown", "alerts", "export"}
               => payload.totals = ZeroTotals

\* C22: summary(days = 1) on an empty cost store that answers returns a
\* payload whose total_requests and total_cost are zero and which carries,
\* beside its data keys, a key that says there is no data
C22_EmptySummaryMarkedNoData ==
    (/\ apc = "done"
     /\ asked.op = "summary"
     /\ asked.days = 1
     /\ costs = {}
     /\ "error" \notin payload.keys)
        => /\ ~payload.raised
           /\ payload.totals.total_requests = 0
           /\ payload.totals.total_cost = 0
           /\ payload.keys \ SummaryDataKeys # {}

\* C30: in every payload summary(days) returns, total_requests is the sum
\* of the per-day request counts and the totals of tokens and of cost are
\* the sums of the per-day values, also when another request is tracked
\* between the two SELECTs of the summary
C30_SummaryInternallyConsistent ==
    (apc = "done" /\ asked.op = "summary" /\ "error" \notin payload.keys)
        => /\ payload.totals.total_requests = SumRows(payload.rows, "requests")
           /\ payload.totals.total_tokens = SumRows(payload.rows, "tokens")
           /\ payload.totals.total_cost = SumRows(payload.rows, "cost")

(***************************************************************************)
(* Ingestion runs.                                                         *)
(***************************************************************************)
\* the ids under which the store holds chunks of a file
ChunkIdsOf(file) == { id \in IdsOf(stored) : id[1] = file }

AnsweredRecords ==
    { <<r, c>> \in (DOMAIN pc) \X costs :
        pc[r] \in {"SUCCESS", "FALLBACK"} /\ c.request_id = request_id[r] }

\* C24 as stated: the stored total_tokens is input_tokens + output_tokens,
\* except that a total the Generator reported wins whenever it differs from
\* that sum; on the FALLBACK path output_tokens is 0 and total_tokens is
\* input_tokens
C24_ReportedTotalWins ==
    \A rc \in AnsweredRecords :
        LET r == rc[1]
            c == rc[2]
            usage == tracked[r].usage
        IN  IF pc[r] = "FALLBACK"
            THEN c.output_tokens = 0 /\ c.total_tokens = c.input_tokens
            ELSE IF usage.reports_total
                        /\ usage.total_tokens # c.input_tokens + c.output_tokens
                 THEN c.total_tokens = usage.total_tokens
                 ELSE c.total_tokens = c.input_tokens + c.output_tokens

\* C24, amended: the stored total_tokens is the total the Generator
\* reported when that total is not zero, and input_tokens + output_tokens
\* when the Generator reported a total of zero or none; on the FALLBACK
\* path output_tokens is 0 and total_tokens is input_tokens
C24_NonZeroReportedTotalWins ==
    \A rc \in AnsweredRecords :
        LET r == rc[1]
            c == rc[2]
            usage == tracked[r].usage
        IN  IF pc[r] = "FALLBACK"
            THEN c.output_tokens = 0 /\ c.total_tokens = c.input_tokens
            ELSE IF usage.reports_total /\ usage.total_tokens # 0
                 THEN c.total_tokens = usage.total_tokens
                 ELSE c.total_tokens = c.input_tokens + c.output_tokens

\* a record is stored whose total is the reported one and not the sum, and
\* one whose Generator reported a total of zero
C24_Witness ==
    \E rc \in AnsweredRecords :
        /\ pc[rc[1]] = "SUCCESS"
        /\ tracked[rc[1]].usage.reports_total
        /\ tracked[rc[1]].usage.total_tokens # 0
        /\ rc[2].total_tokens # rc[2].input_tokens + rc[2].output_tokens

(***************************************************************************)
(* The CostCalculator.                                                     *)
(***************************************************************************)
\* C25: calculate_cost returns for every model and provider, in the pricing
\* table or not; for no tokens at all its three costs are 0; and for the
\* same model and provider the input cost is no higher with more input
\* tokens, the output cost no higher with more output tokens, and the total
\* cost no higher with more of either and no fewer of the other
C25_ZeroAtZeroAndMonotone ==
    quoted.status # "none" =>
        /\ quoted.status = "returned"
        /\ quote.input_tokens = 0 /\ quote.output_tokens = 0
               => quoted = Cost("returned", 0, 0, 0)
        /\ \A more_in \in quote.input_tokens .. MaxQuoteTokens + 1,
              more_out \in quote.output_tokens .. MaxQuoteTokens + 1,
              halves_up \in HalvesUp :
               LET more == calculate_cost_for(quote.model, more_in, more_out,
                                              quote.provider, halves_up)
               IN  /\ more.status = "returned"
                   /\ more_in > quote.input_tokens
                          => quoted.input_cost <= more.input_cost
                   /\ more_out > quote.output_tokens
                          => quoted.output_cost <= more.output_cost
                   /\ more_in > quote.input_tokens \/ more_out > quote.output_tokens
                          => quoted.total_cost <= more.total_cost

\* a model and a provider the table lacks were priced for no tokens
C25_Witness ==
    /\ quoted.status = "returned"
    /\ quote.model = "unknown-model"
    /\ quote.provider = "unknown-provider"
    /\ quote.input_tokens = 0
    /\ quote.output_tokens = 0

(***************************************************************************)
(* The fallback answer.                                                    *)
(***************************************************************************)
\* the answer ends with the note that it is a fallback response
CarriesFallbackLabel(answer) == answer = "fallback_note"

\* C26: every answer returned on the FALLBACK path, whatever the number of
\* retrieval hits, carries the label that says it is a fallback response
C26_FallbackAnswerLabelled ==
    \A r \in DOMAIN pc :
        pc[r] = "FALLBACK" => CarriesFallbackLabel(response[r].answer)

(***************************************************************************)
(* The pre-cleaning of a document.                                         *)
(***************************************************************************)
\* the letters of a line are at least 0.3 of its characters
EnglishEnough(line) == 10 * EnglishChars(line) >= 3 * TLen(line)

\* C27: the text _clean_text_content returns is made of exactly the lines
\* of the input whose ratio of letters is at least 0.3, in their order: a
\* line below 0.3 is removed and a line at 0.3 or above is kept, whatever
\* the other lines are
C27_FilteredLineByLine ==
    cleaned_content.status = "returned" =>
        cleaned_content.text = JoinLines(SelectSeq(raw_content, EnglishEnough))

(***************************************************************************)
(* Fixed-size chunking.                                                    *)
(***************************************************************************)
\* where the text ends for a call: chunk_text slices the text as it is, the
\* engine strips each chunk, so its chunks end where the ink of the text ends
EndOfText(call) ==
    IF call.fn = "chunk_text" THEN TLen(call.text)
    ELSE Strip(call.text, 0, TLen(call.text)).e

\* C28: of the chunks a fixed-size chunking call returns, the last ends at
\* the end of the text, no chunk before the last reaches the end of the
\* text, and no chunk lies wholly inside the chunk emitted before it
C28_StopsAtEndOfText ==
    (fixed_chunks.status = "returned" /\ fixed_chunks.chunks # <<>>) =>
        LET out == fixed_chunks.chunks
            end == EndOfText(fixed_call)
        IN  /\ out[Len(out)].e = end
            /\ \A k \in 1 .. Len(out) - 1 :
                   /\ out[k].e < end
                   /\ ~(out[k].s <= out[k + 1].s /\ out[k + 1].e <= out[k].e)

(***************************************************************************)
(* Sentence-aware chunking.                                                *)
(***************************************************************************)
\* the chunks that hold the sentence
ChunksHolding(sentence, out) ==
    { k \in 1 .. Len(out) : out[k].s <= sentence.s /\ sentence.e <= out[k].e }

\* C29: when _create_chunks returns what _sentence_based_chunking made of
\* the cleaned text, every sentence of that text lies in exactly one chunk
\* and the chunks follow one another in the order of the text
C29_SentenceChunkingLosesNoText ==
    (cpc = "done" /\ route = "sentence") =>
        /\ \A i \in 1 .. Len(Sentences(source)) :
               Cardinality(ChunksHolding(Sentences(source)[i], chunks)) = 1
        /\ \A k \in 1 .. Len(chunks) - 1 : chunks[k].e <= chunks[k + 1].s

====
